---- MODULE Spec2Model ----
(***************************************************************************)
(* A model of the rdsys backend's resource store: the hashring             *)
(* (pkg/core hashring), the stencil that splits a hashring among           *)
(* distributors, and BackendResources, the collection that sends resource  *)
(* diffs to the distributors' channels.                                    *)
(*                                                                         *)
(* Go slices are modelled with their backing array: a hashring's           *)
(* Hashnodes is the pair (arr, len), where arr is the whole backing array  *)
(* (Len(arr) is the capacity) and arr[1..len] is the slice.  The slots     *)
(* behind len keep what was last written there, as they do in Go.          *)
(* Hashnodes are pointers: a copy of a node in the model carries the flag  *)
(* `live`, which says that the copy stands for the node object that the    *)
(* hashring holds now; all live copies of one key are updated together.    *)
(*                                                                         *)
(* Time is counted in hours, the expiry time of the resources here.        *)
(***************************************************************************)
EXTENDS Integers, Sequences, FiniteSets, TLC

(***************************************************************************)
(* Bounds of the model.                                                    *)
(***************************************************************************)
MaxUid == 3
MaxOid == 2
MaxTime == 2
MaxCalls == 2
MaxGets == 1
MaxChans == 1
MaxDiff == 1
MaxWeight == 2
MaxEvals == 2
MaxSends == 2
MaxLines == 26
MaxDup == 1
MaxPoolTime == 2
MaxTests == 2
MaxTicks == 1
MaxFails == 14
MaxConns == 3
MaxUsers == 2
MaxHalfDays == 8
MaxBlockUsers == 4
MaxBlocks == 3
MaxTokens == 2
MaxRedeems == 3
MaxInviteDays == 8
MaxSalmonUsers == 3
MaxSalmonProxies == 6
MaxGetProxies == 4
MaxTypes == 3
MaxPosts == 2
MaxPostResources == 2
MaxMaybeCalls == 3
MaxMaybeTime == 3
MaxAssignCalls == 4
MaxAssignUsers == 2
MaxAssignProxies == 2
MaxDiffProxies == 2
MaxBackendSteps == 3
MaxConnects == 2
MaxFrames == 3
MaxRetries == 2
MaxDistUid == 2
MaxDistOid == 2
MaxStoreSteps == 3
MaxDistConns == 2

(***************************************************************************)
(* Program constants.                                                      *)
(***************************************************************************)
StateUntested == 0
StateFunctional == 1
StateNotFunctional == 2
ResourceIsNew == 0
ResourceChanged == 1
ResourceIsGone == 2
ExpiryTime == 1
\* The test pool counts time in minutes.
FarInTheFuture == 52560000
MaxResources == 25
FlushTimeout == 1
\* The stream client counts time in seconds.
DefaultTimeBeforeRetry == 1
MaxTimeBeforeRetry == 3600
\* The Salmon distributor counts time in half days.
MaxTrustLevel == 6
UntouchableTrustLevel == MaxTrustLevel + 1
HoursPerHalfDay == 12
SalmonTickerInterval == 24 \div HoursPerHalfDay
\* MaxSuspicion, in thousandths.
MaxSuspicion == 333
\* InvitationTokenExpiry, in days.
InvitationTokenExpiry == 7
NumProxiesPerUser == 3
MaxClients == 10

UIDs == 1..MaxUid
OIDs == 1..MaxOid

\* The resource types the backend keeps a hashring for, and one it does not.
RingTypes == {"dummy"}
AllTypes == RingTypes \cup {"junk"}

\* backend.distribution_proportions of the configuration.
DistProportions == [https |-> 1, moat |-> 1]
DistNames == DOMAIN DistProportions

NoRes == [type |-> "", uid |-> 0, oid |-> 0, exp |-> 0, state |-> 0]
NilNode == [key |-> 0, elem |-> NoRes, lu |-> 0, live |-> FALSE]

\* NewDummy: the resource of the package's tests, of type "dummy".
Dummy(u, o) ==
    [type |-> "dummy", uid |-> u, oid |-> o, exp |-> ExpiryTime,
     state |-> StateFunctional]

Junk(u, o) == [Dummy(u, o) EXCEPT !.type = "junk"]

NewHashnode(k, r, t) == [key |-> k, elem |-> r, lu |-> t, live |-> TRUE]

NewHashring == [arr |-> <<>>, len |-> 0]

(***************************************************************************)
(* sort.Search: binary search over the indices [0, n) (0-based, as in Go). *)
(***************************************************************************)
RECURSIVE Search(_, _, _, _)
Search(arr, k, i, j) ==
    IF i < j
    THEN LET h == (i + j) \div 2
         IN  IF ~(arr[h + 1].key >= k)
             THEN Search(arr, k, h + 1, j)
             ELSE Search(arr, k, i, h)
    ELSE i

\* Hashring.getIndex: [i |-> 0-based index, ok |-> err = nil].
getIndexWrapsToLen(h, k) ==
    IF h.len = 0
    THEN [i |-> -1, ok |-> FALSE]
    ELSE LET s == Search(h.arr, k, 0, h.len)
             i == IF s >= h.len THEN h.len - 1 ELSE s
         IN  [i |-> i, ok |-> i < h.len /\ h.arr[i + 1].key = k]

getIndex(h, k) ==
    IF h.len = 0
    THEN [i |-> -1, ok |-> FALSE]
    ELSE LET s == Search(h.arr, k, 0, h.len)
             i == IF s >= h.len THEN 0 ELSE s
         IN  [i |-> i, ok |-> i < h.len /\ h.arr[i + 1].key = k]

\* The slice h.Hashnodes as a sequence.
Nodes(h) == SubSeq(h.arr, 1, h.len)

(***************************************************************************)
(* The stencil.                                                            *)
(***************************************************************************)
\* The distributors a configuration can name, in ascending order.
NameOrder == <<"https", "moat", "salmon">>
StencilNames == {NameOrder[i] : i \in DOMAIN NameOrder}

\* sort.Strings(keys) of BuildStencil.
SortedNames(S) ==
    LET In(k) == k \in S
    IN  SelectSeq(NameOrder, In)

RECURSIVE BuildIntervals(_, _, _)
BuildIntervals(keys, proportions, i) ==
    IF keys = <<>>
    THEN <<>>
    ELSE LET k == Head(keys)
         IN  <<[Begin |-> i, End |-> i + proportions[k] - 1, Name |-> k]>>
             \o BuildIntervals(Tail(keys), proportions, i + proportions[k])

\* BuildStencil: the intervals laid end to end, names in ascending order.
BuildStencil(proportions) ==
    BuildIntervals(SortedNames(DOMAIN proportions), proportions, 0)

Stencil == BuildStencil(DistProportions)

Contains(iv, n) == iv.Begin <= n /\ n <= iv.End

\* Stencil.FindByValue: the name of the first interval that contains n, or
\* "" (the error) when there is none.
RECURSIVE FindByValue(_, _)
FindByValue(s, n) ==
    IF s = <<>> THEN ""
    ELSE IF Contains(Head(s), n) THEN Head(s).Name
    ELSE FindByValue(Tail(s), n)

RECURSIVE MaxEnd(_, _)
MaxEnd(s, max) ==
    IF s = <<>> THEN max
    ELSE MaxEnd(Tail(s), IF Head(s).End > max THEN Head(s).End ELSE max)

\* Stencil.GetUpperEnd: -1 stands for the error of an empty stencil.
GetUpperEnd(s) == IF Len(s) = 0 THEN -1 ELSE MaxEnd(s, 0)

(***************************************************************************)
(* math/rand's global source.  rand.Seed and rand.Intn are two calls on    *)
(* one process-wide generator; the generator is deterministic, and a       *)
(* small linear congruential generator stands for it here.                 *)
(***************************************************************************)
RandModulus == 16
RandSeed(seed) == seed % RandModulus
RandNext(x) == (5 * x + 3) % RandModulus
\* rand.Intn(n) on generator state x: the value drawn.
RandIntn(x, n) == RandNext(x) % n

\* The filter function of GetFilterFunc(distName), when the draw is n.
FilterAdmits(s, n, distName) == FindByValue(s, n) = distName

\* The distributor the stencil assigns a UID to: the filter function run
\* with the generator to itself.
DistOf(uid) ==
    FindByValue(Stencil, RandIntn(RandSeed(uid), GetUpperEnd(Stencil) + 1))

\* ResourceRequest.HasResourceType
HasResourceType(types, rType) == rType \in types

(***************************************************************************)
(* State.                                                                  *)
(***************************************************************************)
VARIABLES
    now,       \* the wall clock (time.Now)
    ring,      \* BackendResources.Collection: type -> hashring
    hlock,     \* who holds each hashring's mutex ("none" if free)
    ctxlock,   \* who holds the BackendResources mutex
    er,        \* BackendResources.EventRecipients: name -> recipient
    rng,       \* the state of math/rand's global generator
    th,        \* the goroutines that call into the store
    log,       \* what each channel has delivered so far
    effects,   \* the changes of the rings' content, in the order they happened
    ncalls,    \* calls begun so far
    nchans,    \* channels made so far
    ngets,     \* calls of BackendResources.Get begun so far
    lastAdd,   \* per goroutine: the resource of its last Add, while unchanged
    res        \* what the last Hashring.Get or GetMany was asked and returned

\* Hashring.Diff and ApplyDiff on two hashrings: h1, the diff made of h1 and
\* h2, and how far the round trip is (ring holds the copy of h2).
VARIABLES h1, diff, dpc

diffvars == <<h1, diff, dpc>>

\* Filter functions evaluated by themselves: the weight map the stencil is
\* built from, the answers each (UID, OID, distributor) has been given so
\* far, and the number of evaluations begun.
VARIABLES props, fres, nevals

filtervars == <<props, fres, nevals>>

\* A streaming subscriber: the request's context (conn), the handler
\* (hnd), whether its channel is open, the goroutines inside
\* propagateUpdate (snd), whether the process has died of a panic, and
\* the propagateUpdate calls begun so far.
VARIABLES conn, hnd, chopen, snd, crashed, nsends

streamvars == <<conn, hnd, chopen, snd, crashed, nsends>>

\* The test pool: its clock, the dispatcher's buffer rMap and the time
\* its first resource came in, the ticker (the time of its next tick, its
\* period, and whether a tick waits in ticker.C), the set inProgress, the
\* testResources goroutines under way, whether shutdown is closed and
\* whether the dispatcher runs, the bridge lines seen so far, and (for the
\* claims) the accepted lines that left the buffer unsent and the outcome
\* of the last submission; the State of each line's test record, and (for
\* the claims) how the testResources call that returned last has ended.
VARIABLES ptime, rMap, entered, tnext, tperiod, tickc, inProgress, tests,
          pstop, prun, nlines, lost, pres, rtest, tdone

testvars == <<rtest, tdone>>

poolvars == <<ptime, rMap, entered, tnext, tperiod, tickc, inProgress, tests,
              pstop, prun, nlines, lost, pres, testvars>>

\* The ingestion task InitKraken: where it is, whether it has signalled
\* ready, whether the shutdown channel is closed, and the ticks it has
\* taken.
VARIABLES kpc, kready, quit, nticks

krakenvars == <<kpc, kready, quit, nticks>>

\* A distributor's stream client, HttpsIpcContext.handleStream: the
\* context's timeBeforeRetry, where setupConn is, the time it last slept
\* for, and (for the claims) the requests that have failed since the last
\* one that succeeded and the requests that have succeeded.
VARIABLES timeBeforeRetry, spc, slept, nfails, nconns

backoffvars == <<timeBeforeRetry, spc, slept, nfails, nconns>>

\* The Salmon distributor's users and its one assigned proxy: the clock and
\* the time of Housekeeping's last tick, which users there are, their
\* Trust and LastPromoted, the proxy's Trust and the users assigned to it,
\* and (for the claims) the time of each user's last promotion by
\* UpdateTrust.
VARIABLES sclock, lastTick, uexists, utrust, ulast, upromo, ptrust, pusers

trustvars == <<sclock, lastTick, uexists, utrust, ulast, upromo, ptrust,
               pusers>>

\* Blocking events: the users assigned to each of two proxies, the
\* InnocencePs of every user, each a pair of numerator and denominator,
\* who is banned, the proxy SetBlocked was last called on, and the number
\* of calls.
VARIABLES busers, innocencePs, banned, blocked, nblocks

blockvars == <<busers, innocencePs, banned, blocked, nblocks>>

\* Invitations: the clock in days, TokenCache, who holds TokenCacheMutex,
\* the goroutines that run RedeemInvite, the tokens issued and the redeem
\* calls so far, and (for the claims) the users created from each token
\* and the redeem attempts that have looked each token up.
VARIABLES iclock, TokenCache, TokenCacheMutex, rth, ntokens, nredeems,
          created, attempts

invitevars == <<iclock, TokenCache, TokenCacheMutex, rth, ntokens, nredeems,
                created, attempts>>

\* Proxy assignment: how many users and proxies there are, each user's
\* InvitedBy (0 is nil), Invited and Proxies, the queues of the requested
\* type in UnassignedProxies and AssignedProxies, whether UnassignedProxies
\* has a key for the requested type and how many other keys it has, the
\* GetProxies calls so far, and (for the claims) the last call, each user's
\* first answer that was not empty and each user's last answer.
VARIABLES nsusers, nsproxies, uInvitedBy, uInvited, uProxies,
          UnassignedProxies, AssignedProxies, hasQueue, otherTypes, ngetp,
          lastGet, firstRet, lastRet

proxyvars == <<nsusers, nsproxies, uInvitedBy, uInvited, uProxies,
               UnassignedProxies, AssignedProxies, hasQueue, otherTypes, ngetp,
               lastGet, firstRet, lastRet>>

\* POST requests to the backend's resources endpoint: the last request and
\* the status it was answered with, the resources handed to
\* BackendResources.Add so far, in order, and the requests so far.
VARIABLES lastPost, postAdds, nposts

postvars == <<lastPost, postAdds, nposts>>

\* A hashring with a test function: the clock, the resource the ring holds
\* under each UID, the tests that were triggered and have not returned, the
\* calls so far, and (for the claims) the last call.
VARIABLES mnow, mring, mpending, nmcalls, mcall

maybevars == <<mnow, mring, mpending, nmcalls, mcall>>

\* Salmon's proxy assignments: the two maps, the position of each caller,
\* and the calls so far.
VARIABLES UserToProxy, ProxyToUser, apc, nacalls

assignvars == <<UserToProxy, ProxyToUser, apc, nacalls>>

\* Salmon as a subscriber of the backend: the resources the backend holds
\* for Salmon, whether Salmon's stream is up, Salmon's two queues of the
\* one type it hands out, the steps of the backend and the connections so
\* far, and (for the claims) the last diff Salmon has processed and the
\* proxies it has called SetBlocked on while doing so.
VARIABLES bres, sconn, unassignedQ, assignedQ, nbsteps, nsconns, sdiff,
          sblocked

salmondiffvars ==
    <<bres, sconn, unassignedQ, assignedQ, nbsteps, nsconns, sdiff,
      sblocked>>

\* The stub distributor and its resource stream: the positions of
\* housekeeping, of handleStream, of setupConn and of Shutdown, the two
\* channels that are closed to stop a task, whether a panic has ended the
\* process, and the frames read and the connection attempts so far.
VARIABLES hkpc, hspc, scpc, sdpc, shutdownCh, doneCh, stubcrashed, nframes,
          nretries

stubvars ==
    <<hkpc, hspc, scpc, sdpc, shutdownCh, doneCh, stubcrashed, nframes,
      nretries>>

\* A hashring-based distributor and the store that feeds it: the resources
\* of the requested type that the store holds and the stencil assigns to
\* the distributor, the distributor's own hashring, whether its stream is
\* up, and the steps of the store and the connections so far.
VARIABLES sring, dring, dconn, ndsteps, ndconns

distvars == <<sring, dring, dconn, ndsteps, ndconns>>

\* The programs that run outside the backend, and the backend's POST
\* handler.
clientvars ==
    <<backoffvars, trustvars, blockvars, invitevars, proxyvars, postvars,
      maybevars, assignvars, salmondiffvars, stubvars, distvars>>

\* What lies outside the store and its hashrings.
aux == <<diffvars, filtervars, streamvars, poolvars, krakenvars, clientvars>>

vars == <<now, ring, hlock, ctxlock, er, rng, th, log, effects, ncalls, nchans,
          ngets, lastAdd, res, aux>>

Threads == {"kraken", "web"}
ChanIds == 1..MaxChans
RequestTypeSets == {{"dummy"}, {"junk"}}

NoRecipient == [present |-> FALSE, types |-> {}, chans |-> <<>>]

\* A goroutine between two calls.  op and pc say which call it is in and
\* where; the other fields are the locals of that call (and, for the
\* claims, h0, chans0, gexp and gheld: the ring and the channels the call
\* found, the resources a Get is bound to return, and the UIDs the ring has
\* held since the Get began).
Idle ==
    [op |-> "none", pc |-> "idle", r |-> NoRes, cid |-> 0, evq |-> <<>>,
     todo |-> {}, cur |-> "", t |-> "", rtodo |-> {}, pnow |-> 0,
     vi |-> 0, vn |-> 0, vlive |-> FALSE, vsnap |-> <<>>, pruned |-> <<>>,
     sortpos |-> 0, gd |-> "", gres |-> <<>>, gexp |-> {}, dq |-> <<>>,
     h0 |-> <<>>, chans0 |-> {}, gheld |-> {}]

NoResult ==
    [op |-> "none", k |-> 0, num |-> 0, nodes |-> <<>>, quiet |-> TRUE,
     ok |-> FALSE, out |-> <<>>]

\* The calls of BackendResources, as opposed to calls on a hashring itself.
StoreOps == {"Add", "CPrune", "KPrune"}

\* The rings the initial reload of the ingestion task leaves behind: any
\* set of resources, each inserted at time 0 into a ring that began empty.
RECURSIVE SortedKeys(_)
SortedKeys(S) ==
    IF S = {} THEN <<>>
    ELSE LET m == CHOOSE a \in S : \A b \in S : a <= b
         IN  <<m>> \o SortedKeys(S \ {m})

\* The capacity append gives a slice that grew one element at a time.
RECURSIVE GrownCap(_, _)
GrownCap(n, c) == IF c >= n THEN c ELSE GrownCap(n, IF c = 0 THEN 1 ELSE 2 * c)

LoadedRing(S) ==
    LET ks == SortedKeys(S)
        c == GrownCap(Len(ks), 0)
    IN  [arr |-> [i \in 1..c |->
                    IF i <= Len(ks)
                    THEN NewHashnode(ks[i], Dummy(ks[i], 1), 0)
                    ELSE NilNode],
         len |-> Len(ks)]

\* A diff that has not been made.
NoDiff == [New |-> <<>>, Changed |-> <<>>, Gone |-> <<>>, made |-> FALSE]

DiffIdle ==
    /\ h1 = NewHashring
    /\ diff = NoDiff
    /\ dpc = "none"

FilterIdle ==
    /\ props = DistProportions
    /\ fres = [k \in UIDs \X OIDs \X StencilNames |-> {}]
    /\ nevals = 0

\* No request for the resource stream has come in.
NoHandler == [pc |-> "none", d |-> "", c |-> 0]

NotSending == [pc |-> "idle", c |-> 0]

StreamIdle ==
    /\ conn = "open"
    /\ hnd = NoHandler
    /\ chopen = FALSE
    /\ snd = [x \in Threads |-> NotSending]
    /\ crashed = FALSE
    /\ nsends = 0

NoSubmission == [line |-> 0, accepted |-> FALSE]

\* NewResourceTestPool, and dispatch up to its loop: the ticker is set far
\* in the future and the buffer is empty.
PoolIdle ==
    /\ ptime = 0
    /\ rMap = {}
    /\ entered = 0
    /\ tnext = FarInTheFuture
    /\ tperiod = FarInTheFuture
    /\ tickc = FALSE
    /\ inProgress = {}
    /\ tests = <<>>
    /\ pstop = FALSE
    /\ prun = TRUE
    /\ nlines = 0
    /\ lost = {}
    /\ pres = NoSubmission
    /\ rtest = [l \in 1..MaxLines |-> StateUntested]
    /\ tdone = ""

\* InitKraken is called: it begins with reloadBridgeDescriptors.
KrakenIdle ==
    /\ kpc = "reload"
    /\ kready = FALSE
    /\ quit = FALSE
    /\ nticks = 0

\* StartStream, and handleStream up to the first request of setupConn.
BackoffIdle ==
    /\ timeBeforeRetry = DefaultTimeBeforeRetry
    /\ spc = "request"
    /\ slept = 0
    /\ nfails = 0
    /\ nconns = 0

UserIds == 1..MaxUsers

\* NewSalmonDistributor, and a proxy as convertToProxies makes it: no
\* users, Trust 0.
TrustIdle ==
    /\ sclock = 0
    /\ lastTick = 0
    /\ uexists = [u \in UserIds |-> FALSE]
    /\ utrust = [u \in UserIds |-> 0]
    /\ ulast = [u \in UserIds |-> 0]
    /\ upromo = [u \in UserIds |-> -1]
    /\ ptrust = 0
    /\ pusers = {}

BlockUserIds == 1..MaxBlockUsers

BlockProxyIds == 1..2

\* Users as NewUser makes them, and no proxy assigned to anyone.
BlockIdle ==
    /\ busers = [p \in BlockProxyIds |-> {}]
    /\ innocencePs = [u \in BlockUserIds |-> <<>>]
    /\ banned = [u \in BlockUserIds |-> FALSE]
    /\ blocked = 0
    /\ nblocks = 0

\* The tokens CreateInvite can issue, and 0 for a string that it never
\* issues.
Tokens == 1..MaxTokens

RedeemThreads == {"r1", "r2"}

NoToken == [present |-> FALSE, IssueTime |-> 0]

\* A goroutine that is not in RedeemInvite, and what its last call
\* returned: ok is err = nil, first is whether no attempt had looked the
\* token up before.
NotRedeeming ==
    [pc |-> "idle", token |-> 0, meta |-> NoToken, ok |-> FALSE,
     first |-> FALSE, done |-> FALSE]

InviteIdle ==
    /\ iclock = 0
    /\ TokenCache = [k \in Tokens |-> NoToken]
    /\ TokenCacheMutex = "none"
    /\ rth = [x \in RedeemThreads |-> NotRedeeming]
    /\ ntokens = 0
    /\ nredeems = 0
    /\ created = [k \in Tokens |-> 0]
    /\ attempts = [k \in 0..MaxTokens |-> 0]

SalmonUserIds == 1..MaxSalmonUsers

NoGet == [user |-> 0, panicked |-> FALSE, ret |-> <<>>]

\* No users, no proxies, and empty maps.
ProxyIdle ==
    /\ nsusers = 0
    /\ nsproxies = 0
    /\ uInvitedBy = [u \in SalmonUserIds |-> 0]
    /\ uInvited = [u \in SalmonUserIds |-> <<>>]
    /\ uProxies = [u \in SalmonUserIds |-> <<>>]
    /\ UnassignedProxies = <<>>
    /\ AssignedProxies = <<>>
    /\ hasQueue = FALSE
    /\ otherTypes = 0
    /\ ngetp = 0
    /\ lastGet = NoGet
    /\ firstRet = [u \in SalmonUserIds |-> <<>>]
    /\ lastRet = [u \in SalmonUserIds |-> <<>>]

\* The status codes of net/http the handler answers with.
StatusOK == 200
StatusBadRequest == 400
StatusInternalServerError == 500

NoPost == [auth |-> "", body |-> "", raws |-> <<>>, status |-> 0]

PostIdle ==
    /\ lastPost = NoPost
    /\ postAdds = <<>>
    /\ nposts = 0

\* The UIDs, OIDs and expiry periods of the resources a hashring with a
\* test function is given.
MaybeUids == 1..2
MaybeOids == 1..2
MaybeExpiries == 1..2

\* No resource under a UID.
NoElem ==
    [present |-> FALSE, oid |-> 0, exp |-> 0, state |-> StateUntested,
     lastTested |-> 0]

NoMaybeCall ==
    [op |-> "", uid |-> 0, oid |-> 0, test |-> FALSE, tested |-> 0]

\* NewHashring: no nodes, and a test function.
MaybeIdle ==
    /\ mnow = 0
    /\ mring = [u \in MaybeUids |-> NoElem]
    /\ mpending = {}
    /\ nmcalls = 0
    /\ mcall = NoMaybeCall

\* The goroutines that call into the proxy assignments, and the users and
\* proxies they pass.
AssignThreads == {"a1", "a2"}
AssignUsers == 1..MaxAssignUsers
AssignProxies == 1..MaxAssignProxies

NotRemoving == [pc |-> "idle", p |-> 0, users |-> {}]

\* NewProxyAssignments: two empty maps.
AssignIdle ==
    /\ UserToProxy = <<>>
    /\ ProxyToUser = <<>>
    /\ apc = [t \in AssignThreads |-> NotRemoving]
    /\ nacalls = 0

\* The UIDs of the proxies the backend may hold, and the locations a proxy
\* may be blocked in.
DiffProxies == 1..MaxDiffProxies
Locations == {"no", "ru"}

EmptyDiff == [New |-> <<>>, Changed |-> <<>>, Gone |-> <<>>]

\* NewSalmonDistributor, before Init has connected it: empty queues.  The
\* backend has no proxy yet.
SalmonDiffIdle ==
    /\ bres = [u \in DiffProxies |-> [present |-> FALSE, BlockedIn |-> {}]]
    /\ sconn = FALSE
    /\ unassignedQ = <<>>
    /\ assignedQ = <<>>
    /\ nbsteps = 0
    /\ nsconns = 0
    /\ sdiff = EmptyDiff
    /\ sblocked = {}

\* StubDistributor.Init has returned: housekeeping and handleStream wait in
\* their selects and setupConn is about to make its first request.
StubIdle ==
    /\ hkpc = "select"
    /\ hspc = "select"
    /\ scpc = "connecting"
    /\ sdpc = "idle"
    /\ shutdownCh = "open"
    /\ doneCh = "open"
    /\ stubcrashed = FALSE
    /\ nframes = 0
    /\ nretries = 0

\* The UIDs and OIDs of the resources of the distributor.
DistUids == 1..MaxDistUid
DistOids == 1..MaxDistOid

\* No resource under a UID of a hashring.
Absent == [present |-> FALSE, oid |-> 0]

\* The distributor has its new hashring and has not connected; the store
\* holds nothing for it yet.
DistIdle ==
    /\ sring = [u \in DistUids |-> Absent]
    /\ dring = [u \in DistUids |-> Absent]
    /\ dconn = FALSE
    /\ ndsteps = 0
    /\ ndconns = 0

ClientIdle ==
    /\ BackoffIdle
    /\ TrustIdle
    /\ BlockIdle
    /\ InviteIdle
    /\ ProxyIdle
    /\ PostIdle
    /\ MaybeIdle
    /\ AssignIdle
    /\ SalmonDiffIdle
    /\ StubIdle
    /\ DistIdle

AuxInit ==
    DiffIdle /\ FilterIdle /\ StreamIdle /\ PoolIdle /\ KrakenIdle /\ ClientIdle

\* The store before any call, whatever its hashrings hold.
StoreIdle ==
    /\ now = 0
    /\ hlock = [t \in RingTypes |-> "none"]
    /\ ctxlock = "none"
    /\ er = [d \in DistNames |-> NoRecipient]
    /\ rng = 0
    /\ th = [x \in Threads |-> Idle]
    /\ log = [c \in ChanIds |-> <<>>]
    /\ effects = <<>>
    /\ ncalls = 0
    /\ nchans = 0
    /\ ngets = 0
    /\ lastAdd = [x \in Threads |-> NoRes]
    /\ res = NoResult

Init ==
    /\ now = 0
    /\ ring \in [RingTypes -> {LoadedRing(S) : S \in SUBSET UIDs}]
    /\ hlock = [t \in RingTypes |-> "none"]
    /\ ctxlock = "none"
    /\ er = [d \in DistNames |-> NoRecipient]
    /\ rng = 0
    /\ th = [x \in Threads |-> Idle]
    /\ log = [c \in ChanIds |-> <<>>]
    /\ effects = <<>>
    /\ ncalls = 0
    /\ nchans = 0
    /\ ngets = 0
    /\ lastAdd = [x \in Threads |-> NoRes]
    /\ res = NoResult
    /\ AuxInit

(***************************************************************************)
(* Node objects behind the copies.                                         *)
(***************************************************************************)
\* The live copies of key k become n; every other copy is left alone.
SetLive(arr, k, n) ==
    [i \in DOMAIN arr |-> IF arr[i].live /\ arr[i].key = k THEN n ELSE arr[i]]

\* The node object of key k has left the ring: its copies are dead.
KillLive(arr, k) ==
    [i \in DOMAIN arr |->
        IF arr[i].live /\ arr[i].key = k
        THEN [arr[i] EXCEPT !.live = FALSE] ELSE arr[i]]

\* The array a goroutine ranges over: the ring's backing array, or the old
\* backing array if append moved the ring to a new one meanwhile.
View(x) == IF th[x].vlive THEN ring[th[x].t].arr ELSE th[x].vsnap

\* Every goroutine that ranges over ring t's backing array keeps `old`.
Detach(T, t, old) ==
    [x \in Threads |->
        IF T[x].vlive /\ T[x].t = t
        THEN [T[x] EXCEPT !.vlive = FALSE, !.vsnap = old] ELSE T[x]]

SnapSetLive(T, t, k, n) ==
    [x \in Threads |->
        IF ~T[x].vlive /\ T[x].t = t
        THEN [T[x] EXCEPT !.vsnap = SetLive(T[x].vsnap, k, n)] ELSE T[x]]

SnapKillLive(T, t, k) ==
    [x \in Threads |->
        IF ~T[x].vlive /\ T[x].t = t
        THEN [T[x] EXCEPT !.vsnap = KillLive(T[x].vsnap, k)] ELSE T[x]]

\* A change of uid's content took effect: no Add of it is the last word,
\* and no Get under way is bound to return what was added.
Forget(L, uid) == [x \in Threads |-> IF L[x].uid = uid THEN NoRes ELSE L[x]]

ForgetExpected(T, uid) ==
    [x \in Threads |-> [T[x] EXCEPT !.gexp = {R \in @ : R.uid # uid}]]

\* The node of uid has left the ring: no Get under way has had it in the
\* ring all along.
ForgetHeld(T, uid) == [x \in Threads |-> [T[x] EXCEPT !.gheld = @ \ {uid}]]

(***************************************************************************)
(* Hashring operations on a hashring value.                                *)
(***************************************************************************)
\* append(h.Hashnodes, n): in place if the capacity allows, else into a new
\* backing array of twice the capacity.
HAppend(h, n) ==
    IF h.len < Len(h.arr)
    THEN [arr |-> [h.arr EXCEPT ![h.len + 1] = n], len |-> h.len + 1]
    ELSE LET c == IF Len(h.arr) = 0 THEN 1 ELSE 2 * Len(h.arr)
         IN  [arr |-> [i \in 1..c |->
                         IF i <= h.len THEN h.arr[i]
                         ELSE IF i = h.len + 1 THEN n ELSE NilNode],
              len |-> h.len + 1]

\* Hashring.Swap(p, p-1), 1-based.
HSwap(h, p) ==
    [h EXCEPT !.arr = [h.arr EXCEPT ![p] = h.arr[p - 1], ![p - 1] = h.arr[p]]]

\* Hashring.Less(p, p-1), 1-based: the inner loop test of insertion sort.
NeedSwapIfGreater(h, p) == p > 1 /\ h.arr[p].key > h.arr[p - 1].key

NeedSwap(h, p) == p > 1 /\ h.arr[p].key < h.arr[p - 1].key

\* sort.Sort on a slice whose last element alone is out of place.
RECURSIVE SortFrom(_, _)
SortFrom(h, p) == IF NeedSwap(h, p) THEN SortFrom(HSwap(h, p), p - 1) ELSE h

\* append(h.Hashnodes[:i], h.Hashnodes[i+1:]...) for the 0-based index i:
\* the tail moves one slot down inside the same backing array, and the slot
\* behind the new end keeps its old content.
HRemoveAt(h, i) ==
    [arr |-> [j \in DOMAIN h.arr |->
                IF j <= i THEN h.arr[j]
                ELSE IF j <= h.len - 1 THEN h.arr[j + 1]
                ELSE h.arr[j]],
     len |-> h.len - 1]

\* Hashring.Remove, and whether it found the key.
HRemove(h, k) ==
    LET g == getIndex(h, k)
    IN  IF ~g.ok THEN h
        ELSE LET h2 == HRemoveAt(h, g.i)
             IN  [h2 EXCEPT !.arr = KillLive(h2.arr, k)]

\* Hashring.Add on a hashring no other goroutine knows (the one Filter
\* makes): an existing UID only gets a new LastUpdate (and the call returns
\* an error); a new UID is appended and the slice sorted.
HAdd(h, r, t) ==
    LET g == getIndex(h, r.uid)
    IN  IF g.ok
        THEN LET n == h.arr[g.i + 1]
             IN  [h EXCEPT !.arr = SetLive(h.arr, r.uid, [n EXCEPT !.lu = t])]
        ELSE LET h2 == HAppend(h, NewHashnode(r.uid, r, t))
             IN  SortFrom(h2, h2.len)

\* Hashring.Get: [ok |-> err = nil, elem |-> the resource].
HGet(h, k) ==
    LET g == getIndex(h, k)
    IN  IF ~g.ok /\ g.i = -1
        THEN [ok |-> FALSE, elem |-> NoRes]
        ELSE [ok |-> TRUE, elem |-> h.arr[g.i + 1].elem]

\* The loop of Hashring.GetMany, for j up to (and without) end.
RECURSIVE GetManyLoopNoSkip(_, _, _, _)
GetManyLoopNoSkip(h, j, end, resources) ==
    IF j >= end THEN resources
    ELSE GetManyLoopNoSkip(h, j + 1, end,
                           Append(resources, h.arr[(j % h.len) + 1].elem))

RECURSIVE GetManyLoop(_, _, _, _)
GetManyLoop(h, j, end, resources) ==
    IF j >= end THEN resources
    ELSE LET r == h.arr[(j % h.len) + 1].elem
         IN  GetManyLoop(h, j + 1, end,
                         IF r.state # StateFunctional
                         THEN resources ELSE Append(resources, r))

\* Hashring.GetMany: [ok |-> err = nil, out |-> the resources].
HGetMany(h, k, num) ==
    IF num > h.len
    THEN [ok |-> FALSE, out |-> <<>>]
    ELSE LET g == getIndex(h, k)
         IN  IF ~g.ok /\ g.i = -1
             THEN [ok |-> FALSE, out |-> <<>>]
             ELSE [ok |-> TRUE, out |-> GetManyLoop(h, g.i, num + g.i, <<>>)]

(***************************************************************************)
(* The store: BackendResources.                                            *)
(***************************************************************************)
Tick ==
    /\ now < MaxTime
    /\ now' = now + 1
    /\ UNCHANGED aux
    /\ UNCHANGED <<ring, hlock, ctxlock, er, rng, th, log, effects, ncalls,
                   nchans, ngets, lastAdd, res>>

\* BackendResources.RegisterChan with a channel made for the call.
RegisterChan(d, types) ==
    /\ ctxlock = "none"
    /\ nchans < MaxChans
    /\ nchans' = nchans + 1
    /\ er' = [er EXCEPT ![d] =
                IF ~er[d].present
                THEN [present |-> TRUE, types |-> types,
                      chans |-> <<nchans + 1>>]
                ELSE [er[d] EXCEPT !.chans = Append(er[d].chans, nchans + 1)]]
    /\ UNCHANGED aux
    /\ UNCHANGED <<now, ring, hlock, ctxlock, rng, th, log, effects, ncalls,
                   ngets, lastAdd, res>>

\* The loop of UnregisterChan: the slice without the first occurrence of
\* the recipient, and the empty slice if it does not occur.
RECURSIVE IndexOf(_, _, _)
IndexOf(q, c, i) ==
    IF i > Len(q) THEN 0 ELSE IF q[i] = c THEN i ELSE IndexOf(q, c, i + 1)

UnregisterSlice(chanSlice, recipient) ==
    LET i == IndexOf(chanSlice, recipient, 1)
    IN  IF i = 0 THEN <<>>
        ELSE SubSeq(chanSlice, 1, i - 1)
             \o SubSeq(chanSlice, i + 1, Len(chanSlice))

\* BackendResources.UnregisterChan, called by the handler that registered c.
UnregisterChan(d, c) ==
    /\ ctxlock = "none"
    /\ er[d].present
    /\ IndexOf(er[d].chans, c, 1) # 0
    /\ er' = [er EXCEPT ![d].chans = UnregisterSlice(er[d].chans, c)]
    /\ UNCHANGED aux
    /\ UNCHANGED <<now, ring, hlock, ctxlock, rng, th, log, effects, ncalls,
                   nchans, ngets, lastAdd, res>>

\* The channels registered now.
Registered == {c \in ChanIds : \E d \in DistNames : IndexOf(er[d].chans, c, 1) # 0}

\* The event BackendResources.Add decides on from what getIndex tells it.
AddEvent(h, r1) ==
    LET g == getIndex(h, r1.uid)
    IN  IF g.ok
        THEN IF r1.oid # h.arr[g.i + 1].elem.oid
             THEN <<[r |-> r1, ev |-> ResourceChanged]>>
             ELSE <<>>
        ELSE <<[r |-> r1, ev |-> ResourceIsNew]>>

Inputs == {Dummy(u, o) : u \in UIDs, o \in OIDs} \cup {Junk(1, 1)}

\* BackendResources.Add, up to the call of propagateUpdate or AddOrUpdate.
\* The lookup reads the hashring without holding its mutex.
AddStart(x, r1) ==
    /\ th[x].pc = "idle"
    /\ ncalls < MaxCalls
    /\ ncalls' = ncalls + 1
    /\ IF r1.type \notin RingTypes
       THEN /\ th' = [th EXCEPT ![x] = Idle]
            /\ UNCHANGED lastAdd
       ELSE LET evq == AddEvent(ring[r1.type], r1)
            IN  /\ th' = [th EXCEPT ![x] =
                            [Idle EXCEPT !.op = "Add", !.r = r1, !.t = r1.type,
                                         !.cid = ncalls + 1, !.evq = evq,
                                         !.pc = IF evq = <<>> THEN "aou"
                                                ELSE "prop"]]
                /\ lastAdd' = [lastAdd EXCEPT ![x] = NoRes]
    /\ UNCHANGED aux
    /\ UNCHANGED <<now, ring, hlock, ctxlock, er, rng, log, effects, nchans,
                   ngets, res>>

\* Hashring.Prune begins on ring t: the clock is read once and the range
\* loop fixes the slice it runs over.
BeginRing(T, t) ==
    [T EXCEPT !.t = t, !.rtodo = T.rtodo \ {t}, !.pnow = now, !.vi = 1,
              !.vn = ring[t].len, !.vlive = TRUE, !.vsnap = <<>>,
              !.pruned = <<>>, !.evq = <<>>, !.r = NoRes, !.pc = "pr_iter",
              !.h0 = IF T.op = "Prune" THEN Nodes(ring[t]) ELSE <<>>]

\* The loop over the collection's hashrings, in any order: what a pruning
\* goroutine can be once it is done with one hashring.
NextRingSet(T) ==
    IF T.rtodo = {} THEN {Idle} ELSE {BeginRing(T, t) : t \in T.rtodo}

\* What a goroutine can be once a propagateUpdate call has returned.
AfterPropSet(T) ==
    LET q == Tail(T.evq)
        T2 == [T EXCEPT !.evq = q, !.todo = {}, !.cur = ""]
    IN  IF q # <<>> THEN {[T2 EXCEPT !.pc = "prop"]}
        ELSE IF T.op = "Add" THEN {[T2 EXCEPT !.pc = "aou"]}
        ELSE NextRingSet(T2)

\* propagateUpdate: take the mutex (on entry) and call rand.Seed for the
\* next recipient of the map, in any order.
PropSeed(x) ==
    /\ th[x].pc \in {"prop", "prop_seed"}
    /\ th[x].pc = "prop" => ctxlock = "none"
    /\ LET e == Head(th[x].evq)
           todo == IF th[x].pc = "prop"
                   THEN {d \in DistNames : er[d].present}
                   ELSE th[x].todo
       IN  IF e.r.type \notin RingTypes \/ todo = {}
           THEN /\ ctxlock' = "none"
                /\ \E T2 \in AfterPropSet(th[x]) : th' = [th EXCEPT ![x] = T2]
                /\ UNCHANGED rng
           ELSE \E d \in todo :
                  /\ ctxlock' = x
                  /\ rng' = IF GetUpperEnd(Stencil) = -1 THEN rng
                            ELSE RandSeed(e.r.uid)
                  /\ th' = [th EXCEPT ![x].pc = "prop_draw", ![x].todo = todo,
                                      ![x].cur = d]
    /\ UNCHANGED aux
    /\ UNCHANGED <<now, ring, hlock, er, log, effects, ncalls, nchans, ngets,
                   lastAdd, res>>

\* The channels of a recipient get the diff.
Send(L, chans, e) ==
    [c \in ChanIds |->
        IF IndexOf(chans, c, 1) # 0 THEN Append(L[c], e) ELSE L[c]]

\* Whether propagateUpdate sends the diff of r to recipient d, given the
\* number drawn for r.
Admitted(d, r, n) ==
    /\ GetUpperEnd(Stencil) # -1
    /\ FilterAdmits(Stencil, n, d)
    /\ HasResourceType(er[d].types, r.type)

\* The diff propagateUpdate makes of resource r and the event, as a
\* channel delivers it (cid: the call that sent it).
DiffOf(e, cid) == [ev |-> e.ev, uid |-> e.r.uid, oid |-> e.r.oid, cid |-> cid]

\* propagateUpdate: rand.Intn for the current recipient, and the sends.
PropDraw(x) ==
    /\ th[x].pc = "prop_draw"
    /\ LET e == Head(th[x].evq)
           d == th[x].cur
           n == RandIntn(rng, GetUpperEnd(Stencil) + 1)
           rest == th[x].todo \ {d}
       IN  /\ rng' = IF GetUpperEnd(Stencil) = -1 THEN rng ELSE RandNext(rng)
           /\ log' = IF Admitted(d, e.r, n)
                     THEN Send(log, er[d].chans, DiffOf(e, th[x].cid))
                     ELSE log
           /\ IF rest = {}
              THEN /\ ctxlock' = "none"
                   /\ \E T2 \in AfterPropSet(th[x]) :
                         th' = [th EXCEPT ![x] = T2]
              ELSE /\ ctxlock' = ctxlock
                   /\ th' = [th EXCEPT ![x].pc = "prop_seed", ![x].todo = rest,
                                       ![x].cur = ""]
    /\ UNCHANGED aux
    /\ UNCHANGED <<now, ring, hlock, er, effects, ncalls, nchans, ngets,
                   lastAdd, res>>

(***************************************************************************)
(* The methods of Hashring that write, as the goroutines run them.         *)
(***************************************************************************)
\* What a goroutine is once a call on the hashring has returned: idle, or
\* in the next call that ApplyDiff makes.
Done(T) ==
    IF T.dq = <<>> THEN Idle
    ELSE [Idle EXCEPT !.op = "ApplyDiff", !.cid = T.cid, !.t = T.t,
                      !.r = Head(T.dq).r, !.pc = Head(T.dq).pc,
                      !.dq = Tail(T.dq)]

\* effects and lastAdd once x has changed (or touched) what the ring
\* holds of uid.
Record(x, uid) ==
    IF th[x].op \in StoreOps
    THEN Append(effects, [cid |-> th[x].cid, uid |-> uid]) ELSE effects

Last(x, r, changed) ==
    LET L == IF changed THEN Forget(lastAdd, r.uid) ELSE lastAdd
    IN  IF th[x].op = "Add" THEN [L EXCEPT ![x] = r] ELSE L

\* The end of Add and of AddOrUpdate for a UID the ring lacks, from
\* NewHashnode and append up to the first swap of sort.Sort (or to the
\* return if nothing is to be swapped).
InsertNew(x) ==
    LET t == th[x].t
        r == th[x].r
        h == ring[t]
        h2 == HAppend(h, NewHashnode(r.uid, r, now))
        T2 == IF h.len < Len(h.arr) THEN th ELSE Detach(th, t, h.arr)
    IN  /\ ring' = [ring EXCEPT ![t] = h2]
        /\ IF NeedSwap(h2, h2.len)
           THEN /\ th' = [T2 EXCEPT ![x].pc = "sort", ![x].sortpos = h2.len]
                /\ hlock' = [hlock EXCEPT ![t] = x]
                /\ UNCHANGED <<effects, lastAdd>>
           ELSE /\ th' = [ForgetExpected(T2, r.uid) EXCEPT ![x] = Done(th[x])]
                /\ effects' = Record(x, r.uid)
                /\ lastAdd' = Last(x, r, TRUE)
                /\ UNCHANGED hlock

\* Hashring.AddOrUpdate, from taking the hashring's mutex.
AddOrUpdate(x) ==
    /\ th[x].pc = "aou"
    /\ hlock[th[x].t] = "none"
    /\ LET t == th[x].t
           r == th[x].r
           h == ring[t]
           g == getIndex(h, r.uid)
       IN  IF g.ok
           THEN LET n == h.arr[g.i + 1]
                    changed == n.elem.oid # r.oid
                    n2 == [n EXCEPT !.lu = now,
                                    !.elem = IF changed THEN r ELSE n.elem]
                    T2 == SnapSetLive(th, t, r.uid, n2)
                IN  /\ ring' = [ring EXCEPT ![t].arr = SetLive(h.arr, r.uid, n2)]
                    /\ th' = [(IF changed THEN ForgetExpected(T2, r.uid)
                               ELSE T2) EXCEPT ![x] = Done(th[x])]
                    /\ effects' = IF changed THEN Record(x, r.uid) ELSE effects
                    /\ lastAdd' = Last(x, r, changed)
                    /\ UNCHANGED hlock
           ELSE InsertNew(x)
    /\ UNCHANGED aux
    /\ UNCHANGED <<now, ctxlock, er, rng, log, ncalls, nchans, ngets, res>>

\* Hashring.Add, from taking the hashring's mutex.
Add(x) ==
    /\ th[x].pc = "add"
    /\ hlock[th[x].t] = "none"
    /\ LET t == th[x].t
           r == th[x].r
           h == ring[t]
           g == getIndex(h, r.uid)
       IN  IF g.ok
           THEN LET n2 == [h.arr[g.i + 1] EXCEPT !.lu = now]
                IN  /\ ring' = [ring EXCEPT ![t].arr = SetLive(h.arr, r.uid, n2)]
                    /\ th' = [SnapSetLive(th, t, r.uid, n2)
                              EXCEPT ![x] = Done(th[x])]
                    /\ UNCHANGED <<hlock, effects, lastAdd>>
           ELSE InsertNew(x)
    /\ UNCHANGED aux
    /\ UNCHANGED <<now, ctxlock, er, rng, log, ncalls, nchans, ngets, res>>

\* One swap of the insertion sort of sort.Sort, under the hashring's mutex;
\* the swap that puts the new node in its place ends the call.
SortSwap(x) ==
    /\ th[x].pc = "sort"
    /\ LET t == th[x].t
           r == th[x].r
           p == th[x].sortpos
           h2 == HSwap(ring[t], p)
       IN  /\ ring' = [ring EXCEPT ![t] = h2]
           /\ IF NeedSwap(h2, p - 1)
              THEN /\ th' = [th EXCEPT ![x].sortpos = p - 1]
                   /\ UNCHANGED <<hlock, effects, lastAdd>>
              ELSE /\ th' = [ForgetExpected(th, r.uid) EXCEPT ![x] = Done(th[x])]
                   /\ hlock' = [hlock EXCEPT ![t] = "none"]
                   /\ effects' = Record(x, r.uid)
                   /\ lastAdd' = Last(x, r, TRUE)
    /\ UNCHANGED aux
    /\ UNCHANGED <<now, ctxlock, er, rng, log, ncalls, nchans, ngets, res>>

\* Hashring.Remove, called from outside or by Hashring.Prune for the node
\* it found expired.
Remove(x) ==
    /\ th[x].pc \in {"remove", "pr_remove"}
    /\ hlock[th[x].t] = "none"
    /\ LET t == th[x].t
           k == th[x].r.uid
           after == IF th[x].pc = "pr_remove"
                    THEN [th[x] EXCEPT !.vi = th[x].vi + 1, !.r = NoRes,
                                       !.pc = "pr_iter"]
                    ELSE Done(th[x])
           T == [th EXCEPT ![x] = after]
       IN  IF getIndex(ring[t], k).ok
           THEN /\ ring' = [ring EXCEPT ![t] = HRemove(ring[t], k)]
                /\ th' = ForgetHeld(ForgetExpected(SnapKillLive(T, t, k), k), k)
                /\ effects' = Record(x, k)
                /\ lastAdd' = Forget(lastAdd, k)
           ELSE /\ th' = T
                /\ UNCHANGED <<ring, effects, lastAdd>>
    /\ UNCHANGED aux
    /\ UNCHANGED <<now, hlock, ctxlock, er, rng, log, ncalls, nchans, ngets,
                   res>>

\* BackendResources.Prune ("CPrune") and pruneExpiredResources of the
\* ingestion task ("KPrune") both begin by calling Hashring.Prune on a
\* hashring of the collection.
PruneStart(x, op) ==
    /\ th[x].pc = "idle"
    /\ ncalls < MaxCalls
    /\ ncalls' = ncalls + 1
    /\ \E T2 \in NextRingSet([Idle EXCEPT !.op = op, !.cid = ncalls + 1,
                                          !.rtodo = RingTypes,
                                          !.chans0 = Registered]) :
          th' = [th EXCEPT ![x] = T2]
    /\ lastAdd' = [lastAdd EXCEPT ![x] = NoRes]
    /\ UNCHANGED aux
    /\ UNCHANGED <<now, ring, hlock, ctxlock, er, rng, log, effects, nchans,
                   ngets, res>>

GoneEvents(pruned) ==
    [i \in 1..Len(pruned) |-> [r |-> pruned[i], ev |-> ResourceIsGone]]

\* Whether Hashring.Prune takes node n for expired at time t.
Expired(n, t) == t - n.lu > n.elem.exp

\* One iteration of the range loop of Hashring.Prune up to the call of
\* Remove, or the end of the loop and the return.  The loop reads the
\* nodes without holding the hashring's mutex.
PrIter(x) ==
    /\ th[x].pc = "pr_iter"
    /\ IF th[x].vi > th[x].vn
       THEN LET T == [th[x] EXCEPT !.vlive = FALSE, !.vsnap = <<>>, !.vi = 0,
                                   !.vn = 0, !.pnow = 0, !.h0 = <<>>]
            IN  IF T.op = "CPrune" /\ T.pruned # <<>>
                THEN th' = [th EXCEPT ![x] =
                              [T EXCEPT !.evq = GoneEvents(T.pruned),
                                        !.pruned = <<>>, !.pc = "prop"]]
                ELSE \E T2 \in NextRingSet(T) : th' = [th EXCEPT ![x] = T2]
       ELSE LET n == View(x)[th[x].vi]
            IN  IF Expired(n, th[x].pnow)
                THEN th' = [th EXCEPT ![x].pruned = Append(th[x].pruned, n.elem),
                                      ![x].r = n.elem, ![x].pc = "pr_remove"]
                ELSE th' = [th EXCEPT ![x].vi = th[x].vi + 1]
    /\ UNCHANGED aux
    /\ UNCHANGED <<now, ring, hlock, ctxlock, er, rng, log, effects, ncalls,
                   nchans, ngets, lastAdd, res>>

(***************************************************************************)
(* BackendResources.Get.                                                   *)
(***************************************************************************)
\* What BackendResources.Get returns: GetAll of the filtered hashring.
Resources(h) == [i \in 1..h.len |-> h.arr[i].elem]

\* The resources whose Add has returned and that nothing has changed
\* since, among those the stencil gives distributor d.
Expected(d, t) ==
    {R \in {lastAdd[y] : y \in Threads} :
        R # NoRes /\ R.type = t /\ DistOf(R.uid) = d}

\* The UIDs of the nodes of ring t, but for a node that an insert under
\* way has brought.
Held(t) ==
    {ring[t].arr[i].key : i \in 1..ring[t].len}
       \ {th[y].r.uid : y \in {z \in Threads : th[z].pc = "sort" /\ th[z].t = t}}

\* BackendResources.Get, up to the range loop of Hashring.Filter.
GetStart(x, d, t) ==
    /\ th[x].pc = "idle"
    /\ ngets < MaxGets
    /\ ngets' = ngets + 1
    /\ IF t \notin RingTypes \/ GetUpperEnd(Stencil) = -1
       THEN th' = [th EXCEPT ![x] = Idle]
       ELSE th' = [th EXCEPT ![x] =
                     [Idle EXCEPT !.op = "Get", !.pc = "get_seed", !.gd = d,
                                  !.t = t, !.gres = NewHashring, !.vi = 1,
                                  !.vn = ring[t].len, !.vlive = TRUE,
                                  !.gexp = Expected(d, t),
                                  !.gheld = Held(t)]]
    /\ UNCHANGED aux
    /\ UNCHANGED <<now, ring, hlock, ctxlock, er, rng, log, effects, ncalls,
                   nchans, lastAdd, res>>

\* Hashring.Filter: read the next node and call rand.Seed with its UID, or
\* leave the loop and return.  The loop holds no mutex.
GetSeed(x) ==
    /\ th[x].pc = "get_seed"
    /\ IF th[x].vi > th[x].vn
       THEN /\ th' = [th EXCEPT ![x] = Idle]
            /\ UNCHANGED rng
       ELSE LET n == View(x)[th[x].vi]
            IN  /\ rng' = RandSeed(n.elem.uid)
                /\ th' = [th EXCEPT ![x].r = n.elem, ![x].pc = "get_draw"]
    /\ UNCHANGED aux
    /\ UNCHANGED <<now, ring, hlock, ctxlock, er, log, effects, ncalls, nchans,
                   ngets, lastAdd, res>>

\* Hashring.Filter: rand.Intn, and Add to the new hashring if the filter
\* function admits the resource.
GetDraw(x) ==
    /\ th[x].pc = "get_draw"
    /\ LET n == RandIntn(rng, GetUpperEnd(Stencil) + 1)
       IN  /\ rng' = RandNext(rng)
           /\ th' = [th EXCEPT ![x].gres =
                                 IF FilterAdmits(Stencil, n, th[x].gd)
                                 THEN HAdd(th[x].gres, th[x].r, 0)
                                 ELSE th[x].gres,
                               ![x].r = NoRes, ![x].vi = th[x].vi + 1,
                               ![x].pc = "get_seed"]
    /\ UNCHANGED aux
    /\ UNCHANGED <<now, ring, hlock, ctxlock, er, log, effects, ncalls, nchans,
                   ngets, lastAdd, res>>

(***************************************************************************)
(* Calls on a hashring itself.                                             *)
(***************************************************************************)
Tested(r, s) == [r EXCEPT !.state = s]

RingInputs ==
    {Tested(Dummy(u, o), s) :
        u \in UIDs, o \in OIDs, s \in {StateFunctional, StateNotFunctional}}

Keys == 0..(MaxUid + 1)

\* A goroutine calls Add, AddOrUpdate or Remove on hashring t.
Call(x, t, op, pc, r) ==
    /\ th[x].pc = "idle"
    /\ ncalls < MaxCalls
    /\ ncalls' = ncalls + 1
    /\ th' = [th EXCEPT ![x] = [Idle EXCEPT !.op = op, !.pc = pc, !.r = r,
                                            !.t = t, !.cid = ncalls + 1]]
    /\ UNCHANGED aux
    /\ UNCHANGED <<now, ring, hlock, ctxlock, er, rng, log, effects, nchans,
                   ngets, lastAdd, res>>

CallAdd(x, t, r) == Call(x, t, "Hashring.Add", "add", r)

CallAddOrUpdate(x, t, r) == Call(x, t, "AddOrUpdate", "aou", r)

CallRemove(x, t, r) == Call(x, t, "Remove", "remove", r)

\* A goroutine calls Hashring.Prune on hashring t.
CallPrune(x, t) ==
    /\ th[x].pc = "idle"
    /\ ncalls < MaxCalls
    /\ ncalls' = ncalls + 1
    /\ th' = [th EXCEPT ![x] =
                BeginRing([Idle EXCEPT !.op = "Prune", !.cid = ncalls + 1], t)]
    /\ UNCHANGED aux
    /\ UNCHANGED <<now, ring, hlock, ctxlock, er, rng, log, effects, nchans,
                   ngets, lastAdd, res>>

\* The calls ApplyDiff makes for diff d, in its order.
DiffOps(d) ==
    [i \in 1..Len(d.New) |-> [pc |-> "add", r |-> d.New[i]]]
    \o [i \in 1..Len(d.Changed) |-> [pc |-> "aou", r |-> d.Changed[i]]]
    \o [i \in 1..Len(d.Gone) |-> [pc |-> "remove", r |-> d.Gone[i]]]

\* The resource the diffs handed to ApplyDiff are made of.
DiffInputs == {Tested(Dummy(MaxUid, MaxOid), StateFunctional)}

DiffLists == UNION {[1..n -> DiffInputs] : n \in 0..MaxDiff}

Diffs == {[New |-> a, Changed |-> b, Gone |-> c] : a, b, c \in DiffLists}

\* Hashring.ApplyDiff on hashring t, up to its first call.
ApplyDiff(x, t, d) ==
    /\ th[x].pc = "idle"
    /\ ncalls < MaxCalls
    /\ ncalls' = ncalls + 1
    /\ th' = [th EXCEPT ![x] =
                Done([Idle EXCEPT !.cid = ncalls + 1, !.t = t,
                                  !.dq = DiffOps(d)])]
    /\ UNCHANGED aux
    /\ UNCHANGED <<now, ring, hlock, ctxlock, er, rng, log, effects, nchans,
                   ngets, lastAdd, res>>

\* Hashring.Get and Hashring.GetMany: they read the hashring without
\* holding its mutex.
Get(x, t, k) ==
    /\ th[x].pc = "idle"
    /\ ncalls < MaxCalls
    /\ ncalls' = ncalls + 1
    /\ LET g == HGet(ring[t], k)
       IN  res' = [op |-> "Get", k |-> k, num |-> 0, nodes |-> Nodes(ring[t]),
                   quiet |-> hlock[t] = "none", ok |-> g.ok,
                   out |-> IF g.ok THEN <<g.elem>> ELSE <<>>]
    /\ UNCHANGED aux
    /\ UNCHANGED <<now, ring, hlock, ctxlock, er, rng, th, log, effects,
                   nchans, ngets, lastAdd>>

GetMany(x, t, k, num) ==
    /\ th[x].pc = "idle"
    /\ ncalls < MaxCalls
    /\ ncalls' = ncalls + 1
    /\ LET g == HGetMany(ring[t], k, num)
       IN  res' = [op |-> "GetMany", k |-> k, num |-> num,
                   nodes |-> Nodes(ring[t]), quiet |-> hlock[t] = "none",
                   ok |-> g.ok, out |-> g.out]
    /\ UNCHANGED aux
    /\ UNCHANGED <<now, ring, hlock, ctxlock, er, rng, th, log, effects,
                   nchans, ngets, lastAdd>>

\* StubDistributor.RequestBridges on the distributor's hashring t: what
\* Hashring.Get gives for the key, or an error if the hashring is empty.
RequestBridges(x, t, k) ==
    /\ th[x].pc = "idle"
    /\ ncalls < MaxCalls
    /\ ncalls' = ncalls + 1
    /\ LET g == HGet(ring[t], k)
       IN  res' = [op |-> "RequestBridges", k |-> k, num |-> 0,
                   nodes |-> Nodes(ring[t]), quiet |-> hlock[t] = "none",
                   ok |-> ring[t].len # 0 /\ g.ok,
                   out |-> IF ring[t].len = 0 THEN <<>> ELSE <<g.elem>>]
    /\ UNCHANGED aux
    /\ UNCHANGED <<now, ring, hlock, ctxlock, er, rng, th, log, effects,
                   nchans, ngets, lastAdd>>

(***************************************************************************)
(* Hashring.Diff, and ApplyDiff of its result.                             *)
(***************************************************************************)
\* A hashring that holds the UIDs of DOMAIN f, the resource of UID u with
\* OID f[u].
RingOf(f) ==
    LET ks == SortedKeys(DOMAIN f)
        c == GrownCap(Len(ks), 0)
    IN  [arr |-> [i \in 1..c |->
                    IF i <= Len(ks)
                    THEN NewHashnode(ks[i], Dummy(ks[i], f[ks[i]]), 0)
                    ELSE NilNode],
         len |-> Len(ks)]

DiffRings == {RingOf(f) : f \in UNION {[S -> OIDs] : S \in SUBSET UIDs}}

\* Hashring.Diff: a.Diff(b), the resources of one type.
HDiffOidBlind(a, b) ==
    LET IsNew(n) == ~getIndex(b, n.elem.uid).ok
        IsGone(n) == ~getIndex(a, n.elem.uid).ok
        Elems(q) == [i \in DOMAIN q |-> q[i].elem]
    IN  [New |-> Elems(SelectSeq(Nodes(a), IsNew)),
         Changed |-> <<>>,
         Gone |-> Elems(SelectSeq(Nodes(b), IsGone)),
         made |-> TRUE]

HDiff(a, b) ==
    LET IsNew(n) == ~getIndex(b, n.elem.uid).ok
        IsChanged(n) ==
            LET g == getIndex(b, n.elem.uid)
            IN  g.ok /\ n.elem.oid # b.arr[g.i + 1].elem.oid
        IsGone(n) == ~getIndex(a, n.elem.uid).ok
        Elems(q) == [i \in DOMAIN q |-> q[i].elem]
    IN  [New |-> Elems(SelectSeq(Nodes(a), IsNew)),
         Changed |-> Elems(SelectSeq(Nodes(a), IsChanged)),
         Gone |-> Elems(SelectSeq(Nodes(b), IsGone)),
         made |-> TRUE]

\* diff := h1.Diff(h2), h2 being the hashring of type t.
Diff(t) ==
    /\ dpc = "none"
    /\ diff' = HDiff(h1, ring[t])
    /\ dpc' = "diffed"
    /\ UNCHANGED <<now, ring, hlock, ctxlock, er, rng, th, log, effects, ncalls,
                   nchans, ngets, lastAdd, res, h1, filtervars, streamvars,
                   poolvars, krakenvars, clientvars>>

\* ApplyDiff(diff) on the copy of h2, up to its first call.
ApplyDiffOnCopy(x, t) ==
    /\ dpc = "diffed"
    /\ th[x].pc = "idle"
    /\ dpc' = "applied"
    /\ ncalls' = ncalls + 1
    /\ th' = [th EXCEPT ![x] =
                Done([Idle EXCEPT !.cid = ncalls + 1, !.t = t,
                                  !.dq = DiffOps(diff)])]
    /\ UNCHANGED <<now, ring, hlock, ctxlock, er, rng, log, effects, nchans,
                   ngets, lastAdd, res, h1, diff, filtervars,
                   streamvars, poolvars, krakenvars, clientvars>>

(***************************************************************************)
(* Filter functions of a stencil, evaluated by concurrent goroutines.      *)
(***************************************************************************)
\* The weight maps of backend.distribution_proportions: positive weights
\* for the distributors named.
WeightMaps ==
    UNION {[S -> 1..MaxWeight] : S \in (SUBSET StencilNames) \ {{}}}

\* A goroutine gets the filter function of distName from the stencil and
\* calls it on r, up to rand.Seed.
FilterSeed(x, r, distName) ==
    /\ th[x].pc = "idle"
    /\ nevals < MaxEvals
    /\ nevals' = nevals + 1
    /\ IF GetUpperEnd(BuildStencil(props)) = -1
       THEN UNCHANGED <<th, rng>>
       ELSE /\ rng' = RandSeed(r.uid)
            /\ th' = [th EXCEPT ![x] = [Idle EXCEPT !.op = "Filter", !.r = r,
                                                    !.gd = distName,
                                                    !.pc = "f_draw"]]
    /\ UNCHANGED <<now, ring, hlock, ctxlock, er, log, effects, ncalls, nchans,
                   ngets, lastAdd, res, diffvars, props, fres, streamvars,
                   poolvars, krakenvars, clientvars>>

\* The filter function from rand.Intn to its return.
FilterDraw(x) ==
    /\ th[x].pc = "f_draw"
    /\ LET s == BuildStencil(props)
           n == RandIntn(rng, GetUpperEnd(s) + 1)
           r == th[x].r
       IN  /\ rng' = RandNext(rng)
           /\ fres' = [fres EXCEPT ![<<r.uid, r.oid, th[x].gd>>] =
                          @ \cup {FilterAdmits(s, n, th[x].gd)}]
    /\ th' = [th EXCEPT ![x] = Idle]
    /\ UNCHANGED <<now, ring, hlock, ctxlock, er, log, effects, ncalls, nchans,
                   ngets, lastAdd, res, diffvars, props, nevals, streamvars,
                   poolvars, krakenvars, clientvars>>

(***************************************************************************)
(* getResourceStreamHandler and the sends of propagateUpdate to its        *)
(* channel.  The channel is unbuffered: a send waits for the handler's     *)
(* receive, and a send on the closed channel panics.                       *)
(***************************************************************************)
storevars == <<now, ring, hlock, rng, th, log, effects, ncalls, ngets, lastAdd,
               res, poolvars, krakenvars, clientvars>>

\* The handler up to its streaming loop: RegisterChan with a new channel;
\* the initial batch goes out before the loop.
StreamRegister(d, types) ==
    /\ ~crashed
    /\ hnd.pc = "none"
    /\ ctxlock = "none"
    /\ nchans < MaxChans
    /\ nchans' = nchans + 1
    /\ er' = [er EXCEPT ![d] =
                IF ~er[d].present
                THEN [present |-> TRUE, types |-> types,
                      chans |-> <<nchans + 1>>]
                ELSE [er[d] EXCEPT !.chans = Append(er[d].chans, nchans + 1)]]
    /\ hnd' = [pc |-> "loop", d |-> d, c |-> nchans + 1]
    /\ chopen' = TRUE
    /\ UNCHANGED <<storevars, ctxlock, diffvars, filtervars, conn, snd, crashed,
                   nsends>>

\* The subscriber's connection ends: r.Context().Done() is closed.
ConnDone ==
    /\ ~crashed
    /\ hnd.pc \notin {"none", "gone"}
    /\ conn = "open"
    /\ conn' = "done"
    /\ UNCHANGED <<storevars, ctxlock, er, nchans, diffvars, filtervars, hnd,
                   chopen, snd, crashed, nsends>>

\* The goroutines whose send on channel c waits for a receiver.
Blocked(c) == {x \in Threads : snd[x].pc = "blocked" /\ snd[x].c = c}

\* What a sender is once its send is done: propagateUpdate returns and its
\* deferred Unlock runs.
Sent(x) ==
    /\ snd' = [snd EXCEPT ![x] = NotSending]
    /\ ctxlock' = "none"

\* The handler's select takes a diff from the channel (in the streaming
\* loop or in the loop that consumes the remaining diffs) and goes on to
\* sendDiff.
Receive(x) ==
    /\ ~crashed
    /\ hnd.pc \in {"loop", "drain"}
    /\ x \in Blocked(hnd.c)
    /\ Sent(x)
    /\ hnd' = [hnd EXCEPT !.pc = IF hnd.pc = "loop" THEN "write" ELSE "dwrite"]
    /\ UNCHANGED <<storevars, er, nchans, diffvars, filtervars, conn, chopen,
                   crashed, nsends>>

\* sendDiff returns (with an error or without): back to the select.
SendDiff ==
    /\ ~crashed
    /\ hnd.pc \in {"write", "dwrite"}
    /\ hnd' = [hnd EXCEPT !.pc = IF hnd.pc = "write" THEN "loop" ELSE "drain"]
    /\ UNCHANGED <<storevars, ctxlock, er, nchans, diffvars, filtervars, conn,
                   chopen, snd, crashed, nsends>>

\* The select of the streaming loop takes the Done case.
SelectDone ==
    /\ ~crashed
    /\ hnd.pc = "loop"
    /\ conn = "done"
    /\ hnd' = [hnd EXCEPT !.pc = "drain"]
    /\ UNCHANGED <<storevars, ctxlock, er, nchans, diffvars, filtervars, conn,
                   chopen, snd, crashed, nsends>>

\* The inner select finds no sender waiting and takes the default case:
\* the handler returns, and its deferred calls are to run.
DrainDefault ==
    /\ ~crashed
    /\ hnd.pc = "drain"
    /\ Blocked(hnd.c) = {}
    /\ hnd' = [hnd EXCEPT !.pc = "closing"]
    /\ UNCHANGED <<storevars, ctxlock, er, nchans, diffvars, filtervars, conn,
                   chopen, snd, crashed, nsends>>

\* The deferred close(diffs), which runs before the deferred UnregisterChan.
CloseChan ==
    /\ ~crashed
    /\ hnd.pc = "closing"
    /\ chopen' = FALSE
    /\ hnd' = [hnd EXCEPT !.pc = "unreg"]
    /\ UNCHANGED <<storevars, ctxlock, er, nchans, diffvars, filtervars, conn,
                   snd, crashed, nsends>>

\* The deferred UnregisterChan.
StreamUnregister ==
    /\ ~crashed
    /\ hnd.pc = "unreg"
    /\ ctxlock = "none"
    /\ er' = [er EXCEPT ![hnd.d].chans = UnregisterSlice(er[hnd.d].chans, hnd.c)]
    /\ hnd' = [hnd EXCEPT !.pc = "gone"]
    /\ UNCHANGED <<storevars, ctxlock, nchans, diffvars, filtervars, conn,
                   chopen, snd, crashed, nsends>>

\* propagateUpdate for resource r, called by Add or Prune in goroutine x:
\* it takes the mutex and comes to the send on the channel of the
\* recipient that owns r, or returns if there is none.
Propagate(x, r) ==
    /\ ~crashed
    /\ snd[x].pc = "idle"
    /\ ctxlock = "none"
    /\ nsends < MaxSends
    /\ nsends' = nsends + 1
    /\ LET d == DistOf(r.uid)
       IN  IF /\ r.type \in RingTypes
              /\ er[d].present
              /\ HasResourceType(er[d].types, r.type)
              /\ er[d].chans # <<>>
           THEN /\ ctxlock' = x
                /\ snd' = [snd EXCEPT ![x] = [pc |-> "send", c |-> er[d].chans[1]]]
           ELSE UNCHANGED <<ctxlock, snd>>
    /\ UNCHANGED <<storevars, er, nchans, diffvars, filtervars, conn, hnd,
                   chopen, crashed>>

\* c <- diff on an open channel: the sender waits for the receiver.
SendWait(x) ==
    /\ ~crashed
    /\ snd[x].pc = "send"
    /\ chopen
    /\ snd' = [snd EXCEPT ![x].pc = "blocked"]
    /\ UNCHANGED <<storevars, ctxlock, er, nchans, diffvars, filtervars, conn,
                   hnd, chopen, crashed, nsends>>

\* c <- diff on the closed channel, or the channel is closed under the
\* waiting sender: the send panics.  The deferred Unlock runs; a panic in
\* a web handler is recovered by net/http, one in the ingestion goroutine
\* ends the process.
SendPanic(x) ==
    /\ ~crashed
    /\ snd[x].pc \in {"send", "blocked"}
    /\ ~chopen
    /\ Sent(x)
    /\ crashed' = (x = "kraken")
    /\ UNCHANGED <<storevars, er, nchans, diffvars, filtervars, conn, hnd,
                   chopen, nsends>>

(***************************************************************************)
(* The test pool: ResourceTestPool.dispatch and testResources.  A bridge   *)
(* line is a number; the lines come in numbered in the order in which they *)
(* are first submitted.                                                    *)
(***************************************************************************)
allstore == <<now, ring, hlock, ctxlock, er, rng, th, log, effects, ncalls,
              nchans, ngets, lastAdd, res, diffvars, filtervars, streamvars,
              krakenvars, clientvars>>

\* The bridge lines a call of the test function can bring: the next new
\* line, or one of the first lines again.
Submittable ==
    (IF nlines < MaxLines THEN {nlines + 1} ELSE {})
       \cup {l \in 1..MaxDup : l <= nlines}

\* inProgress once testResources is done with a batch.
UnmarkAll(inprog, lines) == {}

Unmark(inprog, lines) == inprog \ lines

\* The ticker after the dispatcher has put a resource into buffer buf:
\* it is reset to the flush timeout if the buffer was empty.
TickerAfterAcceptNoReset(buf) == [next |-> tnext, period |-> tperiod]

TickerAfterAccept(buf) ==
    IF Cardinality(buf) = 0
    THEN [next |-> ptime + FlushTimeout, period |-> FlushTimeout]
    ELSE [next |-> tnext, period |-> tperiod]

\* go p.testResources(batch)
Launch(batch) == Append(tests, [lines |-> batch, pc |-> "started"])

\* The accepted lines that are neither in the buffer nor handed to
\* testResources, once the buffer is buf and batch has been handed over.
Unsent(accepted, buf, batch) == ((lost \cup rMap \cup accepted) \ buf) \ batch

\* Time passes.  A tick that is due goes into ticker.C, where the running
\* dispatcher takes it before the next minute is over.
PoolTime ==
    /\ ptime < MaxPoolTime
    /\ prun => ~tickc
    /\ Len(tests) < MaxTests
    /\ ptime' = ptime + 1
    /\ IF tnext = ptime + 1
       THEN /\ tickc' = TRUE
            /\ tnext' = tnext + tperiod
       ELSE UNCHANGED <<tickc, tnext>>
    /\ UNCHANGED <<allstore, rMap, entered, tperiod, inProgress, tests, pstop,
                   prun, nlines, lost, pres>>
    /\ UNCHANGED testvars

\* dispatch, case r := <-p.pending.
Submit(line) ==
    /\ prun
    /\ line \in Submittable
    /\ Len(tests) < MaxTests \/ line \in inProgress
    /\ nlines' = IF line > nlines THEN line ELSE nlines
    /\ IF line \in inProgress
       THEN /\ pres' = [line |-> line, accepted |-> FALSE]
            /\ UNCHANGED <<rMap, entered, tnext, tperiod, tickc, inProgress,
                           tests, lost>>
       ELSE LET tk == TickerAfterAccept(rMap)
                buf == rMap \cup {line}
                full == Cardinality(buf) = MaxResources
            IN  /\ pres' = [line |-> line, accepted |-> TRUE]
                /\ inProgress' = inProgress \cup {line}
                /\ entered' = IF full THEN 0
                              ELSE IF rMap = {} THEN ptime ELSE entered
                /\ tnext' = IF full THEN ptime + FarInTheFuture ELSE tk.next
                /\ tperiod' = IF full THEN FarInTheFuture ELSE tk.period
                \* Reset leaves a tick that waits in ticker.C where it is,
                \* or takes it away: that depends on the Go release.
                /\ tickc' \in (IF rMap = {} \/ full THEN {tickc, FALSE}
                               ELSE {tickc})
                /\ rMap' = IF full THEN {} ELSE buf
                /\ tests' = IF full THEN Launch(buf) ELSE tests
                /\ lost' = Unsent({line}, rMap', IF full THEN buf ELSE {})
    /\ UNCHANGED <<allstore, ptime, pstop, prun>>
    /\ UNCHANGED testvars

\* dispatch, case <-ticker.C.  testResources of an empty buffer returns at
\* once.
TickFlush ==
    /\ prun
    /\ tickc
    /\ tickc' = FALSE
    /\ tests' = IF rMap = {} THEN tests ELSE Launch(rMap)
    /\ rMap' = {}
    /\ entered' = 0
    /\ lost' = Unsent({}, {}, rMap)
    /\ UNCHANGED <<allstore, ptime, tnext, tperiod, inProgress, pstop, prun,
                   nlines, pres>>
    /\ UNCHANGED testvars

\* ResourceTestPool.Stop
Stop ==
    /\ ~pstop
    /\ pstop' = TRUE
    /\ UNCHANGED <<allstore, ptime, rMap, entered, tnext, tperiod, tickc,
                   inProgress, tests, prun, nlines, lost, pres>>
    /\ UNCHANGED testvars

\* dispatch, case <-p.shutdown: the dispatcher returns, and its buffer with
\* it.
DispatchReturn ==
    /\ prun
    /\ pstop
    /\ prun' = FALSE
    /\ rMap' = {}
    /\ entered' = 0
    /\ lost' = Unsent({}, {}, {})
    /\ UNCHANGED <<allstore, ptime, tnext, tperiod, tickc, inProgress, tests,
                   pstop, nlines, pres>>
    /\ UNCHANGED testvars

\* testResources: the request with the batch's bridge lines goes to the
\* tester.
TestRequest(i) ==
    /\ i \in DOMAIN tests
    /\ tests[i].pc = "started"
    /\ tests' = [tests EXCEPT ![i].pc = "requested"]
    /\ UNCHANGED <<allstore, ptime, rMap, entered, tnext, tperiod, tickc,
                   inProgress, pstop, prun, nlines, lost, pres>>
    /\ UNCHANGED testvars

\* How a call of testResources can end: the request to the tester fails,
\* the tester's answer carries an error, or the answer says of the batch's
\* lines that they work or that they do not.
TestOutcomes == {"failed", "error", "functional", "dysfunctional"}

\* The State of the test records if testResources wrote the answer's
\* verdict into them however the request ended.
RecordTestsAlways(R, lines, outcome) ==
    [l \in DOMAIN R |->
        IF l \notin lines THEN R[l]
        ELSE IF outcome = "functional" THEN StateFunctional
             ELSE StateNotFunctional]

\* The State of the test records once testResources has returned: it
\* returns before its loop over resp.Bridges if the request failed or the
\* answer carries an error.
RecordTests(R, lines, outcome) ==
    IF outcome \in {"failed", "error"}
    THEN R
    ELSE [l \in DOMAIN R |->
            IF l \notin lines THEN R[l]
            ELSE IF outcome = "functional" THEN StateFunctional
                 ELSE StateNotFunctional]

\* testResources: the tester's answer (or an error) has come, and the
\* deferred function takes the batch's lines out of inProgress.
TestDone(i, outcome) ==
    /\ i \in DOMAIN tests
    /\ tests[i].pc = "requested"
    /\ tests' = SubSeq(tests, 1, i - 1) \o SubSeq(tests, i + 1, Len(tests))
    /\ inProgress' = Unmark(inProgress, tests[i].lines)
    /\ rtest' = RecordTests(rtest, tests[i].lines, outcome)
    /\ tdone' = outcome
    /\ UNCHANGED <<allstore, ptime, rMap, entered, tnext, tperiod, tickc, pstop,
                   prun, nlines, lost, pres>>

(***************************************************************************)
(* The ingestion task InitKraken beside a streaming subscriber.  Every Add *)
(* of reloadBridgeDescriptors calls propagateUpdate.                       *)
(***************************************************************************)
nonkraken == <<now, ring, hlock, ctxlock, er, rng, th, log, effects, ncalls,
               nchans, ngets, lastAdd, res, diffvars, filtervars, streamvars,
               poolvars, clientvars>>

\* reloadBridgeDescriptors, at start or on a tick: rcol.Add(resource).
KAdd(r) ==
    /\ kpc \in {"reload", "tick"}
    /\ Propagate("kraken", r)

\* The work of the start or of the tick is done: on to ready <- true, or
\* back to the select.
KReloadDone ==
    /\ ~crashed
    /\ kpc \in {"reload", "tick"}
    /\ snd["kraken"].pc = "idle"
    /\ kpc' = IF kpc = "reload" THEN "ready" ELSE "select"
    /\ UNCHANGED <<nonkraken, kready, quit, nticks>>

\* ready <- true: the channel has room for one value, so the send does not
\* wait.
KReady ==
    /\ ~crashed
    /\ kpc = "ready"
    /\ kpc' = "select"
    /\ kready' = TRUE
    /\ UNCHANGED <<nonkraken, quit, nticks>>

\* The select takes a tick of the ticker.
KTick ==
    /\ ~crashed
    /\ kpc = "select"
    /\ nticks < MaxTicks
    /\ nticks' = nticks + 1
    /\ kpc' = "tick"
    /\ UNCHANGED <<nonkraken, kready, quit>>

\* The select takes the shutdown case: InitKraken returns.
KReturn ==
    /\ ~crashed
    /\ kpc = "select"
    /\ quit
    /\ kpc' = "returned"
    /\ UNCHANGED <<nonkraken, kready, quit, nticks>>

\* InitBackend has heard from ready and gets the signal: close(quit).
Shutdown ==
    /\ ~crashed
    /\ kready
    /\ ~quit
    /\ quit' = TRUE
    /\ UNCHANGED <<nonkraken, kpc, kready, nticks>>

(***************************************************************************)
(* The stream client of a distributor: setupConn and the loop of           *)
(* handleStream.                                                           *)
(***************************************************************************)
backend == <<now, ring, hlock, ctxlock, er, rng, th, log, effects, ncalls,
             nchans, ngets, lastAdd, res, diffvars, filtervars, streamvars,
             poolvars, krakenvars>>

nonbackoff ==
    <<backend, trustvars, blockvars, invitevars, proxyvars, postvars,
      maybevars, assignvars, salmondiffvars, stubvars, distvars>>

\* expBackoff without its upper limit.
expBackoffUncapped(t) == [ret |-> t, next |-> 2 * t]

\* expBackoff: what it returns, and timeBeforeRetry after the call.
expBackoff(t) ==
    [ret |-> t,
     next |-> IF 2 * t > MaxTimeBeforeRetry THEN MaxTimeBeforeRetry ELSE 2 * t]

\* setupConn: sendRequest fails, and the goroutine goes to sleep for what
\* expBackoff returns.
RequestFails ==
    /\ spc = "request"
    /\ nfails < MaxFails
    /\ nfails' = nfails + 1
    /\ slept' = expBackoff(timeBeforeRetry).ret
    /\ timeBeforeRetry' = expBackoff(timeBeforeRetry).next
    /\ spc' = "sleep"
    /\ UNCHANGED <<nonbackoff, nconns>>

\* The sleep is over: the next request.
Wake ==
    /\ spc = "sleep"
    /\ spc' = "request"
    /\ UNCHANGED <<nonbackoff, timeBeforeRetry, slept, nfails, nconns>>

\* setupConn: sendRequest succeeds; timeBeforeRetry is set back and the
\* goroutine reads the stream.
RequestSucceeds ==
    /\ spc = "request"
    /\ nconns < MaxConns
    /\ nconns' = nconns + 1
    /\ nfails' = 0
    /\ timeBeforeRetry' = DefaultTimeBeforeRetry
    /\ spc' = "read"
    /\ UNCHANGED <<nonbackoff, slept>>

\* Reading the stream fails: the error goes to retChan and setupConn
\* returns.
ReadError ==
    /\ spc = "read"
    /\ spc' = "lost"
    /\ UNCHANGED <<nonbackoff, timeBeforeRetry, slept, nfails, nconns>>

\* handleStream takes the error from retChan and starts setupConn again.
Reconnect ==
    /\ spc = "lost"
    /\ spc' = "request"
    /\ UNCHANGED <<nonbackoff, timeBeforeRetry, slept, nfails, nconns>>

(***************************************************************************)
(* The Salmon distributor: the trust of users and proxies, as the daily    *)
(* tick of Housekeeping updates it.                                        *)
(***************************************************************************)
nontrust ==
    <<backend, backoffvars, blockvars, invitevars, proxyvars, postvars,
      maybevars, assignvars, salmondiffvars, stubvars, distvars>>

\* The trust levels users are created with.
TrustInputs == {-2, 0, 1, MaxTrustLevel}

Abs(n) == IF n < 0 THEN -n ELSE n

\* int64(hours / 24) of a time span that is not negative, rounded up
\* instead of down.
daysPassedRoundedUp(t, last) ==
    ((t - last) * HoursPerHalfDay + 23) \div 24

\* daysPassed of User.UpdateTrust at time t: int64(hours / 24).
daysPassed(t, last) == ((t - last) * HoursPerHalfDay) \div 24

\* daysRequired of User.UpdateTrust.
daysRequired(trust) == 2 ^ Abs(trust + 1)

\* User.UpdateTrust at time t: the user's Trust after the call.
UserUpdateTrust(trust, last, t) ==
    IF trust >= MaxTrustLevel
    THEN trust
    ELSE IF daysPassed(t, last) >= daysRequired(trust)
         THEN trust + 1
         ELSE trust

\* newTrust of Proxy.UpdateTrust: the least Trust among users, beginning
\* with UntouchableTrustLevel.
RECURSIVE NewTrust(_, _, _)
NewTrust(users, T, newTrust) ==
    IF users = {}
    THEN newTrust
    ELSE LET u == CHOOSE v \in users : TRUE
         IN  NewTrust(users \ {u}, T,
                      IF T[u] < newTrust THEN T[u] ELSE newTrust)

\* Proxy.UpdateTrust if it took newTrust whatever the proxy's Trust is.
ProxyUpdateTrustAlways(trust, users, T) ==
    NewTrust(users, T, UntouchableTrustLevel)

\* Proxy.UpdateTrust: the proxy's Trust after the call.
ProxyUpdateTrust(trust, users, T) ==
    LET newTrust == NewTrust(users, T, UntouchableTrustLevel)
    IN  IF newTrust > trust THEN newTrust ELSE trust

\* SalmonDistributor.NewUser
NewUser(u, trust) ==
    /\ ~uexists[u]
    /\ \A v \in UserIds : v < u => uexists[v]
    /\ uexists' = [uexists EXCEPT ![u] = TRUE]
    /\ utrust' = [utrust EXCEPT ![u] = trust]
    /\ ulast' = [ulast EXCEPT ![u] = sclock]
    /\ UNCHANGED <<nontrust, sclock, lastTick, upromo, ptrust, pusers>>

\* The proxy is given to user u.
Assign(u) ==
    /\ uexists[u]
    /\ u \notin pusers
    /\ pusers' = pusers \cup {u}
    /\ UNCHANGED <<nontrust, sclock, lastTick, uexists, utrust, ulast, upromo,
                   ptrust>>

\* Whether the ticker of Housekeeping has a tick for the select.
TickDue == sclock - lastTick >= SalmonTickerInterval

\* Half a day passes; Housekeeping takes a tick within the half day in
\* which it fell due.
HalfDay ==
    /\ sclock < MaxHalfDays
    /\ ~TickDue
    /\ sclock' = sclock + 1
    /\ UNCHANGED <<nontrust, lastTick, uexists, utrust, ulast, upromo, ptrust,
                   pusers>>

\* Housekeeping, case <-ticker.C: UpdateTrust of every user, then of every
\* assigned proxy.
HousekeepingTick ==
    /\ TickDue
    /\ lastTick' = sclock
    /\ utrust' = [u \in UserIds |->
                    IF uexists[u]
                    THEN UserUpdateTrust(utrust[u], ulast[u], sclock)
                    ELSE utrust[u]]
    /\ upromo' = [u \in UserIds |->
                    IF utrust'[u] # utrust[u] THEN sclock ELSE upromo[u]]
    /\ ptrust' = ProxyUpdateTrust(ptrust, pusers, utrust')
    /\ UNCHANGED <<nontrust, sclock, uexists, ulast, pusers>>

(***************************************************************************)
(* The Salmon distributor: Proxy.SetBlocked.  An innocence probability is  *)
(* kept as the fraction it is.                                             *)
(***************************************************************************)
nonblock ==
    <<backend, backoffvars, trustvars, invitevars, proxyvars, postvars,
      maybevars, assignvars, salmondiffvars, stubvars, distvars>>

\* (float64(numUsers) - 1.0) / float64(numUsers)
InnocenceP(numUsers) == [num |-> numUsers - 1, den |-> numUsers]

\* score of SetBlocked: the product of the innocence probabilities.
RECURSIVE Score(_)
Score(ps) ==
    IF ps = <<>>
    THEN [num |-> 1, den |-> 1]
    ELSE LET rest == Score(Tail(ps))
         IN  [num |-> Head(ps).num * rest.num, den |-> Head(ps).den * rest.den]

\* 1 - score > 0.5
TooSuspiciousAboveHalf(ps) ==
    2 * (Score(ps).den - Score(ps).num) > Score(ps).den

\* 1 - score >= MaxSuspicion
TooSuspicious(ps) ==
    1000 * (Score(ps).den - Score(ps).num) >= MaxSuspicion * Score(ps).den

\* The assignments the blocking events meet.
InitBlock ==
    /\ busers \in [BlockProxyIds -> SUBSET BlockUserIds]
    /\ innocencePs = [u \in BlockUserIds |-> <<>>]
    /\ banned = [u \in BlockUserIds |-> FALSE]
    /\ blocked = 0
    /\ nblocks = 0

\* Proxy.SetBlocked on proxy p.
SetBlocked(p) ==
    /\ nblocks < MaxBlocks
    /\ nblocks' = nblocks + 1
    /\ blocked' = p
    /\ LET numUsers == Cardinality(busers[p])
       IN  IF numUsers = 0
           THEN UNCHANGED <<innocencePs, banned>>
           ELSE /\ innocencePs' =
                      [u \in BlockUserIds |->
                         IF u \in busers[p]
                         THEN Append(innocencePs[u], InnocenceP(numUsers))
                         ELSE innocencePs[u]]
                /\ banned' =
                      [u \in BlockUserIds |->
                         IF u \in busers[p] /\ TooSuspicious(innocencePs'[u])
                         THEN TRUE
                         ELSE banned[u]]
    /\ UNCHANGED <<nonblock, busers>>

(***************************************************************************)
(* The Salmon distributor: invitations.  The inviter is a user of trust    *)
(* MaxTrustLevel or more, and users are never removed.                     *)
(***************************************************************************)
noninvite ==
    <<backend, backoffvars, trustvars, blockvars, proxyvars, postvars,
      maybevars, assignvars, salmondiffvars, stubvars, distvars>>

\* TokenCacheMutex.Lock() if it did not wait.
CanLockAlways(m) == TRUE

\* TokenCacheMutex.Lock() goes on when nobody holds the mutex.
CanLock(m) == m = "none"

\* time.Since(metaInfo.IssueTime) > InvitationTokenExpiry
TokenExpired(meta) == iclock - meta.IssueTime > InvitationTokenExpiry

\* A day passes.
InviteDay ==
    /\ iclock < MaxInviteDays
    /\ iclock' = iclock + 1
    /\ UNCHANGED <<noninvite, TokenCache, TokenCacheMutex, rth, ntokens,
                   nredeems, created, attempts>>

\* CreateInvite by a user who may invite: a token that is not in the cache
\* goes into it.
CreateInvite ==
    /\ CanLock(TokenCacheMutex)
    /\ ntokens < MaxTokens
    /\ ntokens' = ntokens + 1
    /\ TokenCache' = [TokenCache EXCEPT ![ntokens + 1] =
                         [present |-> TRUE, IssueTime |-> iclock]]
    /\ UNCHANGED <<noninvite, iclock, TokenCacheMutex, rth, nredeems, created,
                   attempts>>

\* pruneTokenCache
PruneTokenCache ==
    /\ CanLock(TokenCacheMutex)
    /\ \E k \in Tokens : TokenCache[k].present /\ TokenExpired(TokenCache[k])
    /\ TokenCache' = [k \in Tokens |->
                         IF TokenCache[k].present /\ TokenExpired(TokenCache[k])
                         THEN NoToken
                         ELSE TokenCache[k]]
    /\ UNCHANGED <<noninvite, iclock, TokenCacheMutex, rth, ntokens, nredeems,
                   created, attempts>>

\* RedeemInvite(token) in goroutine x: TokenCacheMutex.Lock().
RedeemLock(x, token) ==
    /\ rth[x].pc = "idle"
    /\ nredeems < MaxRedeems
    /\ token \in 0..ntokens
    /\ CanLock(TokenCacheMutex)
    /\ nredeems' = nredeems + 1
    /\ TokenCacheMutex' = x
    /\ rth' = [rth EXCEPT ![x] =
                 [NotRedeeming EXCEPT !.pc = "lookup", !.token = token]]
    /\ UNCHANGED <<noninvite, iclock, TokenCache, ntokens, created, attempts>>

\* What RedeemInvite leaves when it returns: the deferred Unlock has run.
RedeemReturns(x, ok) ==
    /\ rth' = [rth EXCEPT ![x].pc = "idle", ![x].ok = ok, ![x].done = TRUE]
    /\ TokenCacheMutex' = "none"

\* metaInfo, exists := s.TokenCache[token]
RedeemLookup(x) ==
    /\ rth[x].pc = "lookup"
    /\ LET token == rth[x].token
           exists == token \in Tokens /\ TokenCache[token].present
       IN  /\ attempts' = [attempts EXCEPT ![token] = @ + 1]
           /\ IF exists
              THEN /\ rth' = [rth EXCEPT ![x].pc = "delete",
                                         ![x].meta = TokenCache[token],
                                         ![x].first = attempts[token] = 0]
                   /\ UNCHANGED TokenCacheMutex
              ELSE RedeemReturns(x, FALSE)
    /\ UNCHANGED <<noninvite, iclock, TokenCache, ntokens, nredeems, created>>

\* delete(s.TokenCache, token)
RedeemDelete(x) ==
    /\ rth[x].pc = "delete"
    /\ TokenCache' = [TokenCache EXCEPT ![rth[x].token] = NoToken]
    /\ rth' = [rth EXCEPT ![x].pc = "check"]
    /\ UNCHANGED <<noninvite, iclock, TokenCacheMutex, ntokens, nredeems,
                   created, attempts>>

\* The rest of RedeemInvite: an expired token fails, any other creates a
\* user.
RedeemFinish(x) ==
    /\ rth[x].pc = "check"
    /\ IF TokenExpired(rth[x].meta)
       THEN /\ RedeemReturns(x, FALSE)
            /\ UNCHANGED created
       ELSE /\ RedeemReturns(x, TRUE)
            /\ created' = [created EXCEPT ![rth[x].token] = @ + 1]
    /\ UNCHANGED <<noninvite, iclock, TokenCache, ntokens, nredeems, attempts>>

(***************************************************************************)
(* The Salmon distributor: handing proxies to users.  Proxies are numbers, *)
(* all of the type that is asked for.                                      *)
(***************************************************************************)
nonproxy ==
    <<backend, backoffvars, trustvars, blockvars, invitevars, postvars,
      maybevars, assignvars, salmondiffvars, stubvars, distvars>>

\* Proxy.IsDepleted: nothing appends to Proxy.Users, so len(p.Users) is 0.
IsDepleted(p) == 0 >= MaxClients

\* s[:n] of a slice that is long enough.
Take(s, n) == SubSeq(s, 1, n)

\* s[n:]
Drop(s, n) == SubSeq(s, n + 1, Len(s))

\* The first loop of findAssignedProxies: the user's own proxies that are
\* not depleted, stopping at NumProxiesPerUser.
RECURSIVE OwnProxies(_, _)
OwnProxies(ps, proxies) ==
    IF ps = <<>>
    THEN [proxies |-> proxies, full |-> FALSE]
    ELSE IF IsDepleted(Head(ps))
         THEN OwnProxies(Tail(ps), proxies)
         ELSE LET more == Append(proxies, Head(ps))
              IN  IF Len(more) >= NumProxiesPerUser
                  THEN [proxies |-> more, full |-> TRUE]
                  ELSE OwnProxies(Tail(ps), more)

RECURSIVE findAssignedProxies(_)
RECURSIVE OverInvited(_, _)
\* The second loop of findAssignedProxies, over inviter.Invited.
OverInvited(invited, proxies) ==
    IF invited = <<>>
    THEN proxies
    ELSE LET more == proxies \o findAssignedProxies(Head(invited))
         IN  IF Len(more) >= NumProxiesPerUser
             THEN Take(more, NumProxiesPerUser)
             ELSE OverInvited(Tail(invited), more)

findAssignedProxies(inviter) ==
    LET own == OwnProxies(uProxies[inviter], <<>>)
    IN  IF own.full
        THEN own.proxies
        ELSE OverInvited(uInvited[inviter], own.proxies)

\* len(s.UnassignedProxies): the number of keys of the map.
NumTypes == otherTypes + (IF hasQueue THEN 1 ELSE 0)

\* numRemaining if it were computed from the proxies the traversal found.
NumRemainingOfFound(found) ==
    LET n == NumProxiesPerUser - Len(found)
    IN  IF Len(UnassignedProxies) < n THEN Len(UnassignedProxies) ELSE n

\* numRemaining of findProxies.  The proxies it subtracts are those of the
\* outer variable, which is empty here (the traversal's result is in a
\* variable of the inner block), and len(s.UnassignedProxies) is the
\* number of types the map has a queue for.
NumRemaining(found) ==
    LET n == NumProxiesPerUser - 0
    IN  IF NumTypes < n THEN NumTypes ELSE n

\* findProxies(invitee, rType): what it returns, whether it panics (a slice
\* expression out of range), whether it stores a queue under the requested
\* type, and what it leaves in the queues and in invitee.Proxies.
findProxies(invitee) ==
    LET found == IF uInvitedBy[invitee] # 0
                 THEN findAssignedProxies(uInvitedBy[invitee])
                 ELSE <<>>
        numRemaining == NumRemaining(found)
        same == [panicked |-> FALSE, ret |-> <<>>, stored |-> FALSE,
                 unassigned |-> UnassignedProxies,
                 assigned |-> AssignedProxies, proxies |-> uProxies[invitee]]
    IN  IF uInvitedBy[invitee] # 0 /\ Len(found) = NumProxiesPerUser
        THEN [same EXCEPT !.ret = found]
        ELSE IF numRemaining > Len(UnassignedProxies)
             THEN [same EXCEPT !.panicked = TRUE]
             ELSE LET newProxies == Take(UnassignedProxies, numRemaining)
                  IN  [panicked |-> FALSE,
                       ret |-> newProxies,
                       stored |-> TRUE,
                       unassigned |-> Drop(UnassignedProxies, numRemaining),
                       assigned |-> AssignedProxies \o newProxies,
                       proxies |-> uProxies[invitee] \o newProxies]

\* NewUser(trust, inviterId): inviter 0 is an id that s.Users does not
\* have (Register, or the admin account).
SalmonNewUser(inviter) ==
    /\ nsusers < MaxSalmonUsers
    /\ inviter \in 0..nsusers
    /\ nsusers' = nsusers + 1
    /\ uInvitedBy' = [uInvitedBy EXCEPT ![nsusers + 1] = inviter]
    /\ uInvited' = IF inviter = 0
                   THEN uInvited
                   ELSE [uInvited EXCEPT ![inviter] = Append(@, nsusers + 1)]
    /\ UNCHANGED <<nonproxy, nsproxies, uProxies, UnassignedProxies,
                   AssignedProxies, hasQueue, otherTypes, ngetp, lastGet,
                   firstRet, lastRet>>

\* processDiff with one new proxy of the requested type, or with the first
\* proxy of one more type.
ProcessDiffNew(ofType) ==
    /\ IF ofType
       THEN /\ nsproxies < MaxSalmonProxies
            /\ nsproxies' = nsproxies + 1
            /\ UnassignedProxies' = Append(UnassignedProxies, nsproxies + 1)
            /\ hasQueue' = TRUE
            /\ UNCHANGED otherTypes
       ELSE /\ otherTypes < MaxTypes - 1
            /\ otherTypes' = otherTypes + 1
            /\ UNCHANGED <<nsproxies, UnassignedProxies, hasQueue>>
    /\ UNCHANGED <<nonproxy, nsusers, uInvitedBy, uInvited, uProxies,
                   AssignedProxies, ngetp, lastGet, firstRet, lastRet>>

\* GetProxies(secretId, rType) of a user who exists and is not banned, for a
\* type Salmon hands out.  A panic ends the request and leaves the
\* distributor as it was.
GetProxies(u) ==
    /\ u \in 1..nsusers
    /\ ngetp < MaxGetProxies
    /\ ngetp' = ngetp + 1
    /\ LET r == IF Len(uProxies[u]) > 0
                THEN [panicked |-> FALSE, ret |-> uProxies[u],
                      stored |-> FALSE, unassigned |-> UnassignedProxies,
                      assigned |-> AssignedProxies, proxies |-> uProxies[u]]
                ELSE findProxies(u)
       IN  /\ UnassignedProxies' = r.unassigned
           /\ hasQueue' = (hasQueue \/ r.stored)
           /\ AssignedProxies' = r.assigned
           /\ uProxies' = [uProxies EXCEPT ![u] = r.proxies]
           /\ lastGet' = [user |-> u, panicked |-> r.panicked, ret |-> r.ret]
           /\ firstRet' = IF firstRet[u] = <<>>
                          THEN [firstRet EXCEPT ![u] = r.ret]
                          ELSE firstRet
           /\ lastRet' = IF r.panicked
                         THEN lastRet
                         ELSE [lastRet EXCEPT ![u] = r.ret]
    /\ UNCHANGED <<nonproxy, nsusers, nsproxies, uInvitedBy, uInvited,
                   otherTypes>>

(***************************************************************************)
(* The backend's handler of POST requests that register resources.         *)
(***************************************************************************)
nonpost ==
    <<backend, backoffvars, trustvars, blockvars, invitevars, proxyvars,
      maybevars, assignvars, salmondiffvars, stubvars, distvars>>

\* What the Authorization header of a request can be: absent, without a
\* bearer token, with a token the configuration does not have, with one it
\* has.
AuthKinds == {"none", "nobearer", "invalid", "valid"}

\* What the body of a request can be: one that cannot be read, an empty
\* one, one that is not a JSON array, the JSON value null, and a JSON array.
BodyKinds == {"unreadable", "empty", "notarray", "null", "array"}

\* What an element of the array can be: not a JSON object, an object
\* without "type", one with a type resources.ResourceMap does not have,
\* one whose fields do not fit the type's struct, one whose IsValid is
\* false, and a valid resource.
RawKinds == {"notobject", "notype", "unknowntype", "badfields", "notvalid",
             "ok"}

RawResources == [kind : RawKinds \ {"ok"}, uid : {0}]
                   \cup [kind : {"ok"}, uid : UIDs]

RawArrays ==
    UNION {[1..n -> RawResources] : n \in 0..MaxPostResources}

\* UnmarshalResources: the resources of the array, or an error at the first
\* element that is not a valid resource of a known type.
RECURSIVE UnmarshalResources(_, _)
UnmarshalResources(rawResources, rs) ==
    IF rawResources = <<>>
    THEN [err |-> FALSE, rs |-> rs]
    ELSE IF Head(rawResources).kind # "ok"
         THEN [err |-> TRUE, rs |-> <<>>]
         ELSE UnmarshalResources(Tail(rawResources),
                                 Append(rs, Head(rawResources).uid))

\* postResourcesHandler: the status it answers with and the resources it
\* hands to b.Resources.Add.  It does not look at the Authorization header.
postResourcesHandler(auth, body, raws) ==
    IF body = "unreadable"
    THEN [status |-> StatusInternalServerError, adds |-> <<>>]
    ELSE IF body \in {"empty", "notarray"}
         THEN [status |-> StatusBadRequest, adds |-> <<>>]
         ELSE LET u == UnmarshalResources(raws, <<>>)
              IN  IF u.err
                  THEN [status |-> StatusBadRequest, adds |-> <<>>]
                  ELSE [status |-> StatusOK, adds |-> u.rs]

\* A POST request to the resources endpoint.
PostResources(auth, body, raws) ==
    /\ nposts < MaxPosts
    /\ (body # "array") => raws = <<>>
    /\ nposts' = nposts + 1
    /\ LET r == postResourcesHandler(auth, body, raws)
       IN  /\ lastPost' = [auth |-> auth, body |-> body, raws |-> raws,
                           status |-> r.status]
           /\ postAdds' = postAdds \o r.adds
    /\ UNCHANGED nonpost

(***************************************************************************)
(* Hashring.Add and Hashring.AddOrUpdate with maybeTestResource, on a      *)
(* hashring whose test function sets the State and LastTested of the       *)
(* resource it is given.                                                   *)
(***************************************************************************)
nonmaybe ==
    <<backend, backoffvars, trustvars, blockvars, invitevars, proxyvars,
      postvars, assignvars, salmondiffvars, stubvars, distvars>>

\* A resource as it comes to the hashring.
MaybeInputs ==
    [present : {TRUE}, oid : MaybeOids, exp : MaybeExpiries,
     state : {StateUntested}, lastTested : {0}]

\* maybeTestResource if it did not compare the object IDs.
maybeTestResourceAnyOid(h, uid, r, t) ==
    LET oldR == h[uid]
    IN  IF oldR.present
        THEN IF oldR.state # StateUntested /\ t - oldR.lastTested < oldR.exp
             THEN [test |-> FALSE, oid |-> 0]
             ELSE [test |-> TRUE, oid |-> oldR.oid]
        ELSE [test |-> TRUE, oid |-> r.oid]

\* maybeTestResource(r) at time t: whether it calls the test function, and
\* the OID of the resource it calls it with (the ring's resource if that
\* has the same OID, else r).
maybeTestResource(h, uid, r, t) ==
    LET oldR == h[uid]
    IN  IF oldR.present /\ oldR.oid = r.oid
        THEN IF oldR.state # StateUntested /\ t - oldR.lastTested < oldR.exp
             THEN [test |-> FALSE, oid |-> 0]
             ELSE [test |-> TRUE, oid |-> oldR.oid]
        ELSE [test |-> TRUE, oid |-> r.oid]

\* What maybeTestResource leaves behind: the test it has started, and the
\* record of the call.
MaybeCalled(op, uid, r, m) ==
    /\ nmcalls < MaxMaybeCalls
    /\ nmcalls' = nmcalls + 1
    /\ mpending' = IF m.test THEN mpending \cup {<<uid, m.oid>>} ELSE mpending
    /\ mcall' = [op |-> op, uid |-> uid, oid |-> r.oid, test |-> m.test,
                 tested |-> m.oid]

\* Hashring.AddOrUpdate(r): the element is replaced if its object ID
\* changed.
MaybeAddOrUpdate(uid, r) ==
    /\ MaybeCalled("AddOrUpdate", uid, r, maybeTestResource(mring, uid, r, mnow))
    /\ mring' = IF mring[uid].present /\ mring[uid].oid = r.oid
                THEN mring
                ELSE [mring EXCEPT ![uid] = r]
    /\ UNCHANGED <<nonmaybe, mnow>>

\* Hashring.Add(r): if the UID is in the ring the call returns an error
\* before maybeTestResource.
MaybeAdd(uid, r) ==
    /\ IF mring[uid].present
       THEN /\ MaybeCalled("Add", uid, r, [test |-> FALSE, oid |-> 0])
            /\ UNCHANGED mring
       ELSE /\ MaybeCalled("Add", uid, r,
                           maybeTestResource(mring, uid, r, mnow))
            /\ mring' = [mring EXCEPT ![uid] = r]
    /\ UNCHANGED <<nonmaybe, mnow>>

\* The test function is done with the resource it was given: it has set
\* its State and LastTested.  The resource may have left the ring by then.
MaybeTested(uid, oid, state) ==
    /\ <<uid, oid>> \in mpending
    /\ mpending' = mpending \ {<<uid, oid>>}
    /\ mring' = IF mring[uid].present /\ mring[uid].oid = oid
                THEN [mring EXCEPT ![uid].state = state,
                                   ![uid].lastTested = mnow]
                ELSE mring
    /\ UNCHANGED <<nonmaybe, mnow, nmcalls, mcall>>

\* Time passes.
MaybeTime ==
    /\ mnow < MaxMaybeTime
    /\ mnow' = mnow + 1
    /\ UNCHANGED <<nonmaybe, mring, mpending, nmcalls, mcall>>

(***************************************************************************)
(* Salmon's ProxyAssignments.  Add runs under the mutex from its first to  *)
(* its last statement.  RemoveProxy calls GetUsers, which takes and        *)
(* releases the mutex, and takes the mutex again for the rest.             *)
(***************************************************************************)
nonassign ==
    <<backend, backoffvars, trustvars, blockvars, invitevars, proxyvars,
      postvars, maybevars, salmondiffvars, stubvars, distvars>>

\* m[k] for a map of sets, the empty set for a key the map does not have.
SetAt(m, k) == IF k \in DOMAIN m THEN m[k] ELSE {}

\* The map m with the set under key k being v.
WithKey(m, k, v) ==
    [x \in DOMAIN m \cup {k} |-> IF x = k THEN v ELSE m[x]]

\* The map m without key k.
WithoutKey(m, k) == [x \in DOMAIN m \ {k} |-> m[x]]

\* ProxyAssignments.GetUsers(p).
GetUsers(p) == SetAt(ProxyToUser, p)

\* ProxyAssignments.Add(u, p).
AssignAdd(t, u, p) ==
    /\ apc[t].pc = "idle"
    /\ nacalls < MaxAssignCalls
    /\ nacalls' = nacalls + 1
    /\ UserToProxy' = WithKey(UserToProxy, u, SetAt(UserToProxy, u) \cup {p})
    /\ ProxyToUser' = WithKey(ProxyToUser, p, SetAt(ProxyToUser, p) \cup {u})
    /\ UNCHANGED <<nonassign, apc>>

\* RemoveProxy(p), its first statement: users := a.GetUsers(p).
RemoveProxyGetUsers(t, p) ==
    /\ apc[t].pc = "idle"
    /\ nacalls < MaxAssignCalls
    /\ nacalls' = nacalls + 1
    /\ apc' = [apc EXCEPT ![t] = [pc |-> "remove", p |-> p,
                                  users |-> GetUsers(p)]]
    /\ UNCHANGED <<nonassign, UserToProxy, ProxyToUser>>

\* RemoveProxy(p), the rest, under the mutex: the proxy's entry is deleted
\* and the proxy is taken from the sets of the users GetUsers returned.
RemoveProxyLocked(t) ==
    /\ apc[t].pc = "remove"
    /\ apc' = [apc EXCEPT ![t] = NotRemoving]
    /\ IF apc[t].p \notin DOMAIN ProxyToUser
       THEN UNCHANGED <<UserToProxy, ProxyToUser>>
       ELSE /\ ProxyToUser' = WithoutKey(ProxyToUser, apc[t].p)
            /\ UserToProxy' =
                   [u \in DOMAIN UserToProxy |->
                       IF u \in apc[t].users
                       THEN UserToProxy[u] \ {apc[t].p}
                       ELSE UserToProxy[u]]
    /\ UNCHANGED <<nonassign, nacalls>>

(***************************************************************************)
(* Salmon's processDiff, fed by the backend's resource stream: the first   *)
(* frame of a connection carries every resource of the backend as New, and *)
(* each later frame one new, changed or gone resource.                     *)
(***************************************************************************)
nonsalmondiff ==
    <<backend, backoffvars, trustvars, blockvars, invitevars, proxyvars,
      postvars, maybevars, assignvars, stubvars, distvars>>

\* A proxy as a diff carries it.
DiffProxy(uid, blockedIn) == [Uid |-> uid, BlockedIn |-> blockedIn]

\* The UIDs in a queue.
QueueUids(q) == {q[i].Uid : i \in 1..Len(q)}

\* ResourceQueue.Enqueue: the resource goes to the end unless its UID is in
\* the queue.
QueueEnqueue(q, r1) ==
    IF r1.Uid \in QueueUids(q) THEN q ELSE Append(q, r1)

\* ResourceQueue.Update: every resource with the UID is replaced.
QueueUpdate(q, r1) ==
    [i \in 1..Len(q) |-> IF q[i].Uid = r1.Uid THEN r1 ELSE q[i]]

\* ResourceQueue.Delete: every resource with the UID is removed.
QueueDelete(q, r1) ==
    LET Other(r2) == r1.Uid # r2.Uid
    IN  SelectSeq(q, Other)

\* ResourceQueue.Search: the positions of the first resource with the UID,
\* none if there is none (an empty queue included).
QueueSearch(q, uid) ==
    LET found == {i \in 1..Len(q) : q[i].Uid = uid}
    IN  IF found = {}
        THEN {}
        ELSE {CHOOSE i \in found : \A j \in found : i <= j}

\* LocationSet.HasLocationsNotIn: s1 has a location that s2 has not.
HasLocationsNotIn(s1, s2) == \E key \in s1 : key \notin s2

\* ResourceMap.ApplyDiff, for the queue of one type.
RECURSIVE ApplyNew(_, _)
ApplyNew(q, rs) ==
    IF rs = <<>> THEN q ELSE ApplyNew(QueueEnqueue(q, Head(rs)), Tail(rs))

RECURSIVE ApplyChanged(_, _)
ApplyChanged(q, rs) ==
    IF rs = <<>> THEN q ELSE ApplyChanged(QueueUpdate(q, Head(rs)), Tail(rs))

RECURSIVE ApplyGone(_, _)
ApplyGone(q, rs) ==
    IF rs = <<>> THEN q ELSE ApplyGone(QueueDelete(q, Head(rs)), Tail(rs))

ResourceMapApplyDiff(q, d) ==
    ApplyGone(ApplyChanged(ApplyNew(q, d.New), d.Changed), d.Gone)

\* The proxies of the assigned queue processDiff calls SetBlocked on: for
\* each changed resource the first proxy with its UID, if the changed
\* resource is blocked in a place the proxy is not.  (A type without a
\* queue and a type with an empty queue both give no call.)
SetBlockedCalls(d) ==
    {d.Changed[i].Uid : i \in
        {j \in 1..Len(d.Changed) :
            \E k \in QueueSearch(assignedQ, d.Changed[j].Uid) :
                HasLocationsNotIn(d.Changed[j].BlockedIn,
                                  assignedQ[k].BlockedIn)}}

\* processDiff(diff): the calls of SetBlocked, then the diff is applied to
\* the unassigned proxies, and without its new resources to the assigned
\* proxies.
processDiff(d) ==
    /\ sblocked' = SetBlockedCalls(d)
    /\ unassignedQ' = ResourceMapApplyDiff(unassignedQ, d)
    /\ assignedQ' = ResourceMapApplyDiff(assignedQ, [d EXCEPT !.New = <<>>])
    /\ sdiff' = d

\* What Salmon does with a frame the backend sends: it processes it if its
\* stream is up.
Deliver(d) ==
    IF sconn
    THEN processDiff(d)
    ELSE UNCHANGED <<unassignedQ, assignedQ, sdiff, sblocked>>

\* The resources of the backend, in the order of their UIDs.
RECURSIVE Snapshot(_)
Snapshot(u) ==
    IF u > MaxDiffProxies
    THEN <<>>
    ELSE (IF bres[u].present
          THEN <<DiffProxy(u, bres[u].BlockedIn)>>
          ELSE <<>>) \o Snapshot(u + 1)

\* Salmon's stream comes up (for the first time, or again after the
\* connection was lost): the handler's first frame is every resource as
\* New.
SalmonConnect ==
    /\ ~sconn
    /\ nsconns < MaxConnects
    /\ nsconns' = nsconns + 1
    /\ sconn' = TRUE
    /\ processDiff([EmptyDiff EXCEPT !.New = Snapshot(1)])
    /\ UNCHANGED <<nonsalmondiff, bres, nbsteps>>

\* The connection to the backend is lost.
SalmonDisconnect ==
    /\ sconn
    /\ sconn' = FALSE
    /\ UNCHANGED <<nonsalmondiff, bres, unassignedQ, assignedQ, nbsteps,
                   nsconns, sdiff, sblocked>>

\* The backend is given a proxy: a new one, or one it has with another
\* set of blocking locations.
BackendAddProxy(uid, blockedIn) ==
    /\ nbsteps < MaxBackendSteps
    /\ nbsteps' = nbsteps + 1
    /\ ~(bres[uid].present /\ bres[uid].BlockedIn = blockedIn)
    /\ bres' = [bres EXCEPT ![uid] = [present |-> TRUE,
                                     BlockedIn |-> blockedIn]]
    /\ IF bres[uid].present
       THEN Deliver([EmptyDiff EXCEPT
                        !.Changed = <<DiffProxy(uid, blockedIn)>>])
       ELSE Deliver([EmptyDiff EXCEPT !.New = <<DiffProxy(uid, blockedIn)>>])
    /\ UNCHANGED <<nonsalmondiff, sconn, nsconns>>

\* The backend prunes a proxy.
BackendPruneProxy(uid) ==
    /\ nbsteps < MaxBackendSteps
    /\ nbsteps' = nbsteps + 1
    /\ bres[uid].present
    /\ bres' = [bres EXCEPT ![uid] = [present |-> FALSE, BlockedIn |-> {}]]
    /\ Deliver([EmptyDiff EXCEPT
                   !.Gone = <<DiffProxy(uid, bres[uid].BlockedIn)>>])
    /\ UNCHANGED <<nonsalmondiff, sconn, nsconns>>

\* findProxies takes the first n unassigned proxies and appends them to the
\* assigned ones.
SalmonAssign(n) ==
    /\ n \in 1..Len(unassignedQ)
    /\ n <= NumProxiesPerUser
    /\ unassignedQ' = SubSeq(unassignedQ, n + 1, Len(unassignedQ))
    /\ assignedQ' = assignedQ \o SubSeq(unassignedQ, 1, n)
    /\ UNCHANGED <<nonsalmondiff, bres, sconn, nbsteps, nsconns, sdiff,
                   sblocked>>

(***************************************************************************)
(* The stub distributor's housekeeping and Shutdown, and the stream task   *)
(* of HttpsIpcContext (handleStream with its setupConn goroutine).  All    *)
(* channels are unbuffered: a send and its receive are one step.           *)
(***************************************************************************)
nonstub ==
    <<backend, backoffvars, trustvars, blockvars, invitevars, proxyvars,
      postvars, maybevars, assignvars, salmondiffvars, distvars>>

\* setupConn: the request fails and the goroutine sleeps before it tries
\* again.
ConnFails ==
    /\ ~stubcrashed
    /\ scpc = "connecting"
    /\ nretries < MaxRetries
    /\ nretries' = nretries + 1
    /\ UNCHANGED <<nonstub, hkpc, hspc, scpc, sdpc, shutdownCh, doneCh,
                   stubcrashed, nframes>>

\* setupConn: the request succeeds and the goroutine reads from the body.
ConnSucceeds ==
    /\ ~stubcrashed
    /\ scpc = "connecting"
    /\ scpc' = "reading"
    /\ UNCHANGED <<nonstub, hkpc, hspc, sdpc, shutdownCh, doneCh,
                   stubcrashed, nframes, nretries>>

\* setupConn: ReadBytes returns a frame (the goroutine goes to the send on
\* incoming) or an error (it goes to the send on retChan).
ReadBytes(ok) ==
    /\ ~stubcrashed
    /\ scpc = "reading"
    /\ nframes < MaxFrames
    /\ nframes' = nframes + 1
    /\ scpc' = IF ok THEN "incoming" ELSE "retChan"
    /\ UNCHANGED <<nonstub, hkpc, hspc, sdpc, shutdownCh, doneCh,
                   stubcrashed, nretries>>

\* setupConn sends on a channel that the deferred calls of handleStream
\* have closed: the goroutine panics and the process ends.
SendOnClosed ==
    /\ ~stubcrashed
    /\ scpc \in {"incoming", "retChan"}
    /\ hspc = "returned"
    /\ stubcrashed' = TRUE
    /\ UNCHANGED <<nonstub, hkpc, hspc, scpc, sdpc, shutdownCh, doneCh,
                   nframes, nretries>>

\* handleStream takes a frame from incoming; if it unmarshals, the task
\* goes to the send on the receiver's channel.
StreamIncoming(ok) ==
    /\ ~stubcrashed
    /\ hspc = "select"
    /\ scpc = "incoming"
    /\ scpc' = "reading"
    /\ hspc' = IF ok THEN "messages" ELSE "select"
    /\ UNCHANGED <<nonstub, hkpc, sdpc, shutdownCh, doneCh, stubcrashed,
                   nframes, nretries>>

\* handleStream takes the error from retChan and starts setupConn again;
\* the goroutine that has sent the error returns.
StreamRetry ==
    /\ ~stubcrashed
    /\ hspc = "select"
    /\ scpc = "retChan"
    /\ scpc' = "connecting"
    /\ UNCHANGED <<nonstub, hkpc, hspc, sdpc, shutdownCh, doneCh,
                   stubcrashed, nframes, nretries>>

\* handleStream takes the case of the closed done channel and returns; its
\* deferred calls close incoming and retChan and call wg.Done.
StreamDone ==
    /\ ~stubcrashed
    /\ hspc = "select"
    /\ doneCh = "closed"
    /\ hspc' = "returned"
    /\ UNCHANGED <<nonstub, hkpc, scpc, sdpc, shutdownCh, doneCh,
                   stubcrashed, nframes, nretries>>

\* housekeeping takes a diff from rStream and applies it; handleStream
\* comes back to its select.
HousekeepingDiff ==
    /\ ~stubcrashed
    /\ hkpc = "select"
    /\ hspc = "messages"
    /\ hspc' = "select"
    /\ UNCHANGED <<nonstub, hkpc, scpc, sdpc, shutdownCh, doneCh,
                   stubcrashed, nframes, nretries>>

\* housekeeping takes the case of the closed shutdown channel and returns;
\* the first of its deferred calls is StopStream, which closes done and
\* waits for handleStream.
HousekeepingShutdown ==
    /\ ~stubcrashed
    /\ hkpc = "select"
    /\ shutdownCh = "closed"
    /\ hkpc' = "StopStream"
    /\ doneCh' = "closed"
    /\ UNCHANGED <<nonstub, hspc, scpc, sdpc, shutdownCh, stubcrashed,
                   nframes, nretries>>

\* StopStream returns when handleStream has returned; housekeeping closes
\* rStream and calls wg.Done.
StopStreamReturns ==
    /\ ~stubcrashed
    /\ hkpc = "StopStream"
    /\ hspc = "returned"
    /\ hkpc' = "returned"
    /\ UNCHANGED <<nonstub, hspc, scpc, sdpc, shutdownCh, doneCh,
                   stubcrashed, nframes, nretries>>

\* Shutdown is called: it closes the shutdown channel and waits for
\* housekeeping.
StubShutdown ==
    /\ ~stubcrashed
    /\ sdpc = "idle"
    /\ sdpc' = "Wait"
    /\ shutdownCh' = "closed"
    /\ UNCHANGED <<nonstub, hkpc, hspc, scpc, doneCh, stubcrashed, nframes,
                   nretries>>

\* Shutdown returns when housekeeping has returned.
StubShutdownReturns ==
    /\ ~stubcrashed
    /\ sdpc = "Wait"
    /\ hkpc = "returned"
    /\ sdpc' = "returned"
    /\ UNCHANGED <<nonstub, hkpc, hspc, scpc, shutdownCh, doneCh,
                   stubcrashed, nframes, nretries>>

(***************************************************************************)
(* A hashring-based distributor fed by the store.  The calls on the store  *)
(* come one after the other here, and each frame is applied by the         *)
(* distributor in the step that sends it.  A hashring is taken as what it  *)
(* holds under each UID.                                                   *)
(***************************************************************************)
nondist ==
    <<backend, backoffvars, trustvars, blockvars, invitevars, proxyvars,
      postvars, maybevars, assignvars, salmondiffvars, stubvars>>

\* A resource as a frame carries it.
Carried(uid, oid) == [uid |-> uid, oid |-> oid]

\* Hashring.Add: a resource whose UID the ring holds is left as it is (its
\* LastUpdate is set and an error returned).
LocalAdd(h, r) ==
    IF h[r.uid].present
    THEN h
    ELSE [h EXCEPT ![r.uid] = [present |-> TRUE, oid |-> r.oid]]

\* Hashring.AddOrUpdate: the resource replaces the one of its UID, or is
\* added.
LocalAddOrUpdate(h, r) ==
    [h EXCEPT ![r.uid] = [present |-> TRUE, oid |-> r.oid]]

\* Hashring.Remove.
LocalRemove(h, r) == [h EXCEPT ![r.uid] = Absent]

\* Hashring.ApplyDiff: Add for the new resources, AddOrUpdate for the
\* changed ones, Remove for the gone ones.
RECURSIVE LocalApply(_, _, _)
LocalApply(h, rs, kind) ==
    IF rs = <<>>
    THEN h
    ELSE LocalApply(CASE kind = "New" -> LocalAdd(h, Head(rs))
                      [] kind = "Changed" -> LocalAddOrUpdate(h, Head(rs))
                      [] OTHER -> LocalRemove(h, Head(rs)),
                    Tail(rs), kind)

LocalApplyDiff(h, d) ==
    LocalApply(LocalApply(LocalApply(h, d.New, "New"), d.Changed, "Changed"),
               d.Gone, "Gone")

\* processResourceRequest: what Get on the store returns for the
\* distributor, in the order of the UIDs.
RECURSIVE StoreGet(_)
StoreGet(u) ==
    IF u > MaxDistUid
    THEN <<>>
    ELSE (IF sring[u].present THEN <<Carried(u, sring[u].oid)>> ELSE <<>>)
         \o StoreGet(u + 1)

\* housekeeping applies a frame if the stream is up; a frame sent while it
\* is down reaches nobody.
DistReceive(d) ==
    dring' = IF dconn THEN LocalApplyDiff(dring, d) ELSE dring

\* The distributor's stream comes up, for the first time or again: the
\* handler registers its channel and sends the first frame, every resource
\* of the distributor as New, and housekeeping applies it.
DistConnect ==
    /\ ~dconn
    /\ ndconns < MaxDistConns
    /\ ndconns' = ndconns + 1
    /\ dconn' = TRUE
    /\ dring' = LocalApplyDiff(dring, [EmptyDiff EXCEPT !.New = StoreGet(1)])
    /\ UNCHANGED <<nondist, sring, ndsteps>>

\* The connection is lost; the handler unregisters its channel.
DistDisconnect ==
    /\ dconn
    /\ dconn' = FALSE
    /\ UNCHANGED <<nondist, sring, dring, ndsteps, ndconns>>

\* BackendResources.Add of a resource of the distributor: a new frame if
\* the UID is not in the ring, a changed frame if it is there with another
\* OID, then AddOrUpdate.
StoreAdd(uid, oid) ==
    /\ ndsteps < MaxStoreSteps
    /\ ndsteps' = ndsteps + 1
    /\ ~(sring[uid].present /\ sring[uid].oid = oid)
    /\ sring' = [sring EXCEPT ![uid] = [present |-> TRUE, oid |-> oid]]
    /\ IF sring[uid].present
       THEN DistReceive([EmptyDiff EXCEPT !.Changed = <<Carried(uid, oid)>>])
       ELSE DistReceive([EmptyDiff EXCEPT !.New = <<Carried(uid, oid)>>])
    /\ UNCHANGED <<nondist, dconn, ndconns>>

\* BackendResources.Prune when one resource has expired: the resource
\* leaves the ring and a gone frame is sent.
StorePrune(uid) ==
    /\ ndsteps < MaxStoreSteps
    /\ ndsteps' = ndsteps + 1
    /\ sring[uid].present
    /\ sring' = [sring EXCEPT ![uid] = Absent]
    /\ DistReceive([EmptyDiff EXCEPT
                       !.Gone = <<Carried(uid, sring[uid].oid)>>])
    /\ UNCHANGED <<nondist, dconn, ndconns>>

\* pruneExpiredResources of the ingestion task when one resource has
\* expired: it calls Prune on the hashring itself, and no frame is sent.
KrakenPrune(uid) ==
    /\ ndsteps < MaxStoreSteps
    /\ ndsteps' = ndsteps + 1
    /\ sring[uid].present
    /\ sring' = [sring EXCEPT ![uid] = Absent]
    /\ UNCHANGED <<nondist, dring, dconn, ndconns>>

(***************************************************************************)
(* The specifications.                                                     *)
(***************************************************************************)
\* The store as the ingestion task and the web handlers change it.
Next ==
    \/ Tick
    \/ \E d \in DistNames, types \in RequestTypeSets : RegisterChan(d, types)
    \/ \E d \in DistNames, c \in ChanIds : UnregisterChan(d, c)
    \/ \E x \in Threads, r1 \in Inputs : AddStart(x, r1)
    \/ \E x \in Threads : PropSeed(x)
    \/ \E x \in Threads : PropDraw(x)
    \/ \E x \in Threads : AddOrUpdate(x)
    \/ \E x \in Threads : SortSwap(x)
    \/ PruneStart("kraken", "KPrune")
    \/ PruneStart("web", "CPrune")
    \/ \E x \in Threads : PrIter(x)
    \/ \E x \in Threads : Remove(x)

Spec == Init /\ [][Next]_vars

\* The store as distributors read it while resources come in.
NextGet ==
    \/ \E d \in DistNames, types \in RequestTypeSets : RegisterChan(d, types)
    \/ \E d \in DistNames, c \in ChanIds : UnregisterChan(d, c)
    \/ \E x \in Threads, r1 \in Inputs : AddStart(x, r1)
    \/ \E x \in Threads : PropSeed(x)
    \/ \E x \in Threads : PropDraw(x)
    \/ \E x \in Threads : AddOrUpdate(x)
    \/ \E x \in Threads : SortSwap(x)
    \/ \E d \in DistNames, t \in AllTypes : GetStart("web", d, t)
    \/ GetSeed("web")
    \/ GetDraw("web")

SpecGet == Init /\ [][NextGet]_vars

\* The store as distributors read it while the ingestion tick prunes it.
NextSnap ==
    \/ Tick
    \/ PruneStart("kraken", "KPrune")
    \/ \E x \in Threads : PrIter(x)
    \/ \E x \in Threads : Remove(x)
    \/ \E d \in DistNames, t \in AllTypes : GetStart("web", d, t)
    \/ GetSeed("web")
    \/ GetDraw("web")

SpecSnap == Init /\ [][NextSnap]_vars

\* One hashring and the goroutines that call its methods.
NextRing ==
    \/ Tick
    \/ \E x \in Threads, t \in RingTypes, r \in RingInputs : CallAdd(x, t, r)
    \/ \E x \in Threads, t \in RingTypes, r \in RingInputs :
          CallAddOrUpdate(x, t, r)
    \/ \E x \in Threads, t \in RingTypes, u \in UIDs :
          CallRemove(x, t, Dummy(u, 1))
    \/ \E x \in Threads, t \in RingTypes : CallPrune(x, t)
    \/ \E x \in Threads, t \in RingTypes, d \in Diffs : ApplyDiff(x, t, d)
    \/ \E x \in Threads, t \in RingTypes, k \in Keys : Get(x, t, k)
    \/ \E x \in Threads, t \in RingTypes, k \in Keys, num \in 0..(MaxUid + 1) :
          GetMany(x, t, k, num)
    \/ \E x \in Threads, t \in RingTypes, k \in Keys : RequestBridges(x, t, k)
    \/ \E x \in Threads : Add(x)
    \/ \E x \in Threads : AddOrUpdate(x)
    \/ \E x \in Threads : SortSwap(x)
    \/ \E x \in Threads : Remove(x)
    \/ \E x \in Threads : PrIter(x)

SpecRing == Init /\ [][NextRing]_vars

\* Two hashrings, the diff of the first against the second, and a
\* goroutine that applies the diff to the copy of the second.
InitDiff ==
    /\ StoreIdle
    /\ ring \in [RingTypes -> DiffRings]
    /\ h1 \in DiffRings
    /\ diff = NoDiff
    /\ dpc = "none"
    /\ FilterIdle
    /\ StreamIdle
    /\ PoolIdle
    /\ KrakenIdle
    /\ ClientIdle

NextDiff ==
    \/ \E t \in RingTypes : Diff(t)
    \/ \E t \in RingTypes : ApplyDiffOnCopy("web", t)
    \/ \E x \in Threads : Add(x)
    \/ \E x \in Threads : AddOrUpdate(x)
    \/ \E x \in Threads : SortSwap(x)
    \/ \E x \in Threads : Remove(x)

SpecDiff == InitDiff /\ [][NextDiff]_vars

\* A stencil built from a weight map, and goroutines that evaluate its
\* filter functions on resources.
InitFilter ==
    /\ StoreIdle
    /\ ring = [t \in RingTypes |-> NewHashring]
    /\ DiffIdle
    /\ props \in WeightMaps
    /\ fres = [k \in UIDs \X OIDs \X StencilNames |-> {}]
    /\ nevals = 0
    /\ StreamIdle
    /\ PoolIdle
    /\ KrakenIdle
    /\ ClientIdle

NextFilter ==
    \/ \E x \in Threads, u \in UIDs, o \in OIDs, d \in StencilNames :
          FilterSeed(x, Dummy(u, o), d)
    \/ \E x \in Threads : FilterDraw(x)

SpecFilter == InitFilter /\ [][NextFilter]_vars

\* The test pool, the goroutines that submit resources to it and the
\* tester.
InitPool ==
    /\ StoreIdle
    /\ ring = [t \in RingTypes |-> NewHashring]
    /\ DiffIdle
    /\ FilterIdle
    /\ StreamIdle
    /\ PoolIdle
    /\ KrakenIdle
    /\ ClientIdle

NextPool ==
    \/ PoolTime
    \/ \E line \in 1..MaxLines : Submit(line)
    \/ TickFlush
    \/ Stop
    \/ DispatchReturn
    \/ \E i \in 1..MaxTests : TestRequest(i)
    \/ \E i \in 1..MaxTests, outcome \in TestOutcomes : TestDone(i, outcome)

SpecPool == InitPool /\ [][NextPool]_vars

\* A subscriber's stream beside the goroutines that send diffs to it.
InitStream ==
    /\ StoreIdle
    /\ ring = [t \in RingTypes |-> NewHashring]
    /\ DiffIdle
    /\ FilterIdle
    /\ StreamIdle
    /\ PoolIdle
    /\ KrakenIdle
    /\ ClientIdle

Handler ==
    \/ \E d \in DistNames, types \in RequestTypeSets : StreamRegister(d, types)
    \/ \E x \in Threads : Receive(x)
    \/ SendDiff
    \/ SelectDone
    \/ DrainDefault
    \/ CloseChan
    \/ StreamUnregister

Sender(x) ==
    \/ \E r \in Inputs : Propagate(x, r)
    \/ SendWait(x)
    \/ SendPanic(x)

NextStream ==
    \/ ConnDone
    \/ Handler
    \/ \E x \in Threads : Sender(x)

\* Every goroutine that can take a step takes one in the end.
SpecStream ==
    /\ InitStream
    /\ [][NextStream]_vars
    /\ WF_vars(Handler)
    /\ \A x \in Threads : WF_vars(Sender(x))

\* A distributor's stream client beside a backend that is up at times.
InitBackoff == InitStream

NextBackoff ==
    \/ RequestFails
    \/ Wake
    \/ RequestSucceeds
    \/ ReadError
    \/ Reconnect

SpecBackoff == InitBackoff /\ [][NextBackoff]_vars

\* The Salmon distributor's users and proxy over the days.
NextTrust ==
    \/ \E u \in UserIds, trust \in TrustInputs : NewUser(u, trust)
    \/ \E u \in UserIds : Assign(u)
    \/ HalfDay
    \/ HousekeepingTick

SpecTrust == InitStream /\ [][NextTrust]_vars

\* Blocking events on two proxies.
NextBlock == \E p \in BlockProxyIds : SetBlocked(p)

\* The backend and the other programs idle, and proxies with users.
InitBlocking ==
    /\ StoreIdle
    /\ ring = [t \in RingTypes |-> NewHashring]
    /\ DiffIdle
    /\ FilterIdle
    /\ StreamIdle
    /\ PoolIdle
    /\ KrakenIdle
    /\ BackoffIdle
    /\ TrustIdle
    /\ InitBlock
    /\ InviteIdle
    /\ ProxyIdle
    /\ PostIdle
    /\ MaybeIdle
    /\ AssignIdle
    /\ SalmonDiffIdle
    /\ StubIdle
    /\ DistIdle

SpecBlock == InitBlocking /\ [][NextBlock]_vars

\* Invitations: the goroutines of the distributor's web handlers and
\* Housekeeping's pruning.
NextInvite ==
    \/ InviteDay
    \/ CreateInvite
    \/ PruneTokenCache
    \/ \E x \in RedeemThreads, token \in 0..MaxTokens : RedeemLock(x, token)
    \/ \E x \in RedeemThreads : RedeemLookup(x)
    \/ \E x \in RedeemThreads : RedeemDelete(x)
    \/ \E x \in RedeemThreads : RedeemFinish(x)

SpecInvite == InitStream /\ [][NextInvite]_vars

\* Proxy assignment: users are created, proxies arrive, users ask.
NextProxies ==
    \/ \E inviter \in 0..MaxSalmonUsers : SalmonNewUser(inviter)
    \/ \E ofType \in BOOLEAN : ProcessDiffNew(ofType)
    \/ \E u \in SalmonUserIds : GetProxies(u)

SpecProxies == InitStream /\ [][NextProxies]_vars

\* The requests bridges and others send to the resources endpoint.
NextPost ==
    \E auth \in AuthKinds, body \in BodyKinds, raws \in RawArrays :
       PostResources(auth, body, raws)

SpecPost == InitStream /\ [][NextPost]_vars

\* Calls on a hashring with a test function.
NextMaybe ==
    \/ \E uid \in MaybeUids, r \in MaybeInputs : MaybeAddOrUpdate(uid, r)
    \/ \E uid \in MaybeUids, r \in MaybeInputs : MaybeAdd(uid, r)
    \/ \E uid \in MaybeUids, oid \in MaybeOids,
          state \in {StateFunctional, StateNotFunctional} :
          MaybeTested(uid, oid, state)
    \/ MaybeTime

SpecMaybe == InitStream /\ [][NextMaybe]_vars

\* Calls into the proxy assignments.
NextAssign ==
    \/ \E t \in AssignThreads, u \in AssignUsers, p \in AssignProxies :
          AssignAdd(t, u, p)
    \/ \E t \in AssignThreads, p \in AssignProxies :
          RemoveProxyGetUsers(t, p)
    \/ \E t \in AssignThreads : RemoveProxyLocked(t)

SpecAssign == InitStream /\ [][NextAssign]_vars

\* Salmon and the backend that feeds it.
NextSalmonDiff ==
    \/ SalmonConnect
    \/ SalmonDisconnect
    \/ \E uid \in DiffProxies, blockedIn \in SUBSET Locations :
          BackendAddProxy(uid, blockedIn)
    \/ \E uid \in DiffProxies : BackendPruneProxy(uid)
    \/ \E n \in 1..MaxDiffProxies : SalmonAssign(n)

SpecSalmonDiff == InitStream /\ [][NextSalmonDiff]_vars

\* The steps of the stub distributor's three tasks, and what the network
\* does to setupConn.
StreamTask ==
    \/ \E ok \in BOOLEAN : StreamIncoming(ok)
    \/ StreamRetry
    \/ StreamDone

HousekeepingTask ==
    \/ HousekeepingDiff
    \/ HousekeepingShutdown
    \/ StopStreamReturns

NextStub ==
    \/ ConnFails
    \/ ConnSucceeds
    \/ \E ok \in BOOLEAN : ReadBytes(ok)
    \/ SendOnClosed
    \/ StreamTask
    \/ HousekeepingTask
    \/ StubShutdown
    \/ StubShutdownReturns

\* A task that can take a step takes one in the end.
SpecStub ==
    /\ InitStream
    /\ [][NextStub]_vars
    /\ WF_vars(StreamTask)
    /\ WF_vars(HousekeepingTask)
    /\ WF_vars(StubShutdownReturns)

\* A distributor and the store that feeds it.
NextDist ==
    \/ DistConnect
    \/ DistDisconnect
    \/ \E uid \in DistUids, oid \in DistOids : StoreAdd(uid, oid)
    \/ \E uid \in DistUids : StorePrune(uid)
    \/ \E uid \in DistUids : KrakenPrune(uid)

SpecDist == InitStream /\ [][NextDist]_vars

\* The steps the ingestion task takes by itself.
Kraken ==
    \/ KReloadDone
    \/ KReady
    \/ KReturn
    \/ SendWait("kraken")
    \/ SendPanic("kraken")

NextKraken ==
    \/ ConnDone
    \/ Handler
    \/ Shutdown
    \/ KTick
    \/ \E r \in Inputs : KAdd(r)
    \/ Kraken

\* The ingestion task beside one subscriber's stream; the handler and the
\* task take a step in the end if they can.
SpecKraken ==
    /\ InitStream
    /\ [][NextKraken]_vars
    /\ WF_vars(Handler)
    /\ WF_vars(Kraken)

(***************************************************************************)
(* The claims.                                                             *)
(***************************************************************************)
\* Whether ring t holds a node of uid that no insert under way has brought.
Present(t, uid) ==
    /\ \E i \in 1..ring[t].len : ring[t].arr[i].key = uid
    /\ ~\E y \in Threads :
          th[y].pc = "sort" /\ th[y].t = t /\ th[y].r.uid = uid

OidInRing(t, uid) ==
    ring[t].arr[CHOOSE i \in 1..ring[t].len : ring[t].arr[i].key = uid].elem.oid

\* The events the claim has Add(r) emit on the ring as it is.
ClaimedEvents(r) ==
    IF ~Present(r.type, r.uid) THEN <<[r |-> r, ev |-> ResourceIsNew]>>
    ELSE IF OidInRing(r.type, r.uid) # r.oid
         THEN <<[r |-> r, ev |-> ResourceChanged]>>
         ELSE <<>>

AddBegins(x) == th[x].pc = "idle" /\ th'[x].op = "Add" /\ th'[x].pc # "idle"

RemovedBy(cid) ==
    {effects[i].uid : i \in {j \in DOMAIN effects : effects[j].cid = cid}}

GoneCount(q, cid, uid) ==
    Cardinality({i \in DOMAIN q :
                    q[i].ev = ResourceIsGone /\ q[i].cid = cid /\ q[i].uid = uid})

PruneReturns(x) ==
    th[x].op \in {"CPrune", "KPrune"} /\ th'[x].pc = "idle"

\* The channels of the distributor that owns uid and asked for type t.
OwnerChans(uid, t) ==
    {c \in ChanIds :
        /\ IndexOf(er[DistOf(uid)].chans, c, 1) # 0
        /\ HasResourceType(er[DistOf(uid)].types, t)}

\* C2: every resource that a pruning of the store removes (by
\* BackendResources.Prune or by the pruning of the ingestion tick) has one
\* `gone` diff delivered on the channels of the subscriber that owns it,
\* for the channels registered from before the pruning to its end.
C2_PruneSendsGone ==
    [][\A x \in Threads :
          PruneReturns(x) =>
            \A uid \in RemovedBy(th[x].cid) :
              \A t \in RingTypes :
                 \A c \in OwnerChans(uid, t) \cap th[x].chans0 :
                    GoneCount(log'[c], th[x].cid, uid) = 1]_vars

\* Where in effects the change that call cid made to uid stands (0: not
\* made).
EffectPos(cid, uid) ==
    IF \E i \in DOMAIN effects : effects[i] = [cid |-> cid, uid |-> uid]
    THEN CHOOSE i \in DOMAIN effects :
            /\ effects[i] = [cid |-> cid, uid |-> uid]
            /\ \A j \in 1..(i - 1) : effects[j] # effects[i]
    ELSE 0

InEffectOrder(a, b) ==
    LET pa == EffectPos(a.cid, a.uid)
        pb == EffectPos(b.cid, b.uid)
    IN  (pa # 0 /\ pb # 0 /\ pa # pb) => pa < pb

\* C3: on every channel, the diffs of two state changes that both took
\* effect on the store arrive in the order in which the changes took
\* effect, whatever the interleaving of the calls.
C3_DiffsInEffectOrder ==
    \A c \in ChanIds :
       \A i, j \in DOMAIN log[c] :
          i < j => InEffectOrder(log[c][i], log[c][j])

\* j is the next diff after i on channel c for the same UID.
NextForUid(c, i, j) ==
    /\ i < j
    /\ log[c][i].uid = log[c][j].uid
    /\ \A k \in (i + 1)..(j - 1) : log[c][k].uid # log[c][i].uid

\* C4: on every channel and for every UID, a `new` diff is the first one
\* or follows a `gone` diff, `changed` diffs come in the order of the
\* changes, and what follows a `gone` diff is a `new` diff.
C4_ProgramOrderPerUid ==
    \A c \in ChanIds :
       \A i, j \in DOMAIN log[c] :
          NextForUid(c, i, j) =>
            /\ log[c][j].ev = ResourceIsNew <=> log[c][i].ev = ResourceIsGone
            /\ (log[c][i].ev = ResourceChanged /\ log[c][j].ev = ResourceChanged)
                  => InEffectOrder(log[c][i], log[c][j])

PropDraws(x) == th[x].pc = "prop_draw" /\ th'[x].pc # "prop_draw"

\* C5: propagateUpdate sends the diff of R to a subscriber that has
\* channels if and only if R's type is in the subscriber's request and the
\* stencil assigns R to the subscriber's name, and then on every channel
\* of the subscriber.
C5_SentIffOwned ==
    [][\A x \in Threads :
          PropDraws(x) =>
            LET e == Head(th[x].evq)
                d == th[x].cur
                owed == /\ HasResourceType(er[d].types, e.r.type)
                        /\ DistOf(e.r.uid) = d
            IN  er[d].chans # <<>> =>
                  IF owed
                  THEN log' = Send(log, er[d].chans, DiffOf(e, th[x].cid))
                  ELSE log' = log]_vars

GetReturns(x) == th[x].pc = "get_seed" /\ th'[x].pc = "idle"

\* C6: a Get for distributor D and type T that began after Add(R) had
\* returned, for R of type T that the stencil assigns to D, returns a
\* resource with R's UID and R's OID (as long as nothing has changed or
\* removed R since).
C6_GetContainsAdded ==
    [][\A x \in Threads :
          GetReturns(x) =>
            \A R \in th[x].gexp :
               \E i \in DOMAIN Resources(th[x].gres) :
                  /\ Resources(th[x].gres)[i].uid = R.uid
                  /\ Resources(th[x].gres)[i].oid = R.oid]_vars

StrictlyAscending(q) == \A i \in 1..(Len(q) - 1) : q[i].key < q[i + 1].key

UniqueUids(q) ==
    \A i, j \in DOMAIN q : i # j => q[i].elem.uid # q[j].elem.uid

\* C7: whenever no call is inside a hashring's mutex, after any calls of
\* Add, AddOrUpdate, Remove, Prune and ApplyDiff by concurrent goroutines,
\* the hashring's nodes are in strictly ascending key order and no two
\* nodes have the same UID.
C7_SortedAndUnique ==
    \A t \in RingTypes :
       hlock[t] = "none" =>
          StrictlyAscending(Nodes(ring[t])) /\ UniqueUids(Nodes(ring[t]))

\* Two calls have run to their end on a full ring, one of which put a node
\* in front of older ones.
C7_Witness ==
    /\ ncalls = MaxCalls
    /\ \A x \in Threads : th[x].pc = "idle"
    /\ \E t \in RingTypes :
          /\ ring[t].len = MaxUid
          /\ \E i \in 1..(MaxUid - 1) :
                ring[t].arr[i].lu > ring[t].arr[i + 1].lu

\* The claim's test of expiry.
Aged(n, t) == t - n.lu > n.elem.exp

HashringPruneReturns(x) ==
    /\ th[x].op = "Prune"
    /\ th[x].pc = "pr_iter"
    /\ th'[x].pc = "idle"

\* C8: a Prune call that runs alone removes every node whose age (now
\* minus LastUpdate) is greater than its resource's expiry and no other
\* node (one whose age equals the expiry stays), and it returns the
\* removed resources, each once.
C8_PruneRemovesExpired ==
    [][\A x \in Threads :
          (HashringPruneReturns(x) /\ ncalls = 1) =>
            LET h0 == th[x].h0
                gone == {i \in DOMAIN h0 : Aged(h0[i], th[x].pnow)}
                left == Nodes(ring[th[x].t])
                pruned == th[x].pruned
            IN  /\ {left[i].key : i \in DOMAIN left}
                     = {h0[i].key : i \in (DOMAIN h0) \ gone}
                /\ Len(left) = Len(h0) - Cardinality(gone)
                /\ {pruned[i].uid : i \in DOMAIN pruned}
                     = {h0[i].key : i \in gone}
                /\ Len(pruned) = Cardinality(gone)]_vars

\* The index of the node of q with the smallest key that is at least k,
\* and 1 if q has no such node.
Ceiling(q, k) ==
    IF \E i \in DOMAIN q : q[i].key >= k
    THEN CHOOSE i \in DOMAIN q :
            /\ q[i].key >= k
            /\ \A j \in DOMAIN q : q[j].key >= k => q[i].key <= q[j].key
    ELSE 1

\* The num nodes of q in ring order from the closest ceiling of k.
Window(q, k, num) ==
    [j \in 1..num |-> q[((Ceiling(q, k) - 1 + j - 1) % Len(q)) + 1]]

IsFunctional(n) == n.elem.state = StateFunctional

ElemsOf(q) == [i \in DOMAIN q |-> q[i].elem]

Distinct(q) == \A i, j \in DOMAIN q : i # j => q[i].uid # q[j].uid

\* GetMany was asked for no more than the length of a ring that is not
\* empty, while no call was inside the hashring's mutex.
ManyAsked ==
    /\ res.op = "GetMany"
    /\ res.quiet
    /\ res.nodes # <<>>
    /\ res.num <= Len(res.nodes)

\* C9 as stated: for every n not greater than the ring length, GetMany
\* of key k returns exactly n distinct elements, all of them functional.
C9_ReturnsExactlyN ==
    ManyAsked =>
       /\ res.ok
       /\ Len(res.out) = res.num
       /\ Distinct(res.out)
       /\ \A i \in DOMAIN res.out : res.out[i].state = StateFunctional

\* C9 as amended: for every n not greater than the length of a ring that
\* is not empty, GetMany returns the functional elements among the n
\* nodes that follow in ring order from the closest ceiling of k, in that
\* order and each once: at most n elements.
C9_ReturnsFunctionalOfWindow ==
    ManyAsked =>
       /\ res.ok
       /\ res.out = ElemsOf(SelectSeq(Window(res.nodes, res.k, res.num),
                                      IsFunctional))
       /\ Distinct(res.out)
       /\ Len(res.out) <= res.num

\* GetMany has wrapped around the end of the ring and skipped a node.
C9_Witness ==
    /\ ManyAsked
    /\ res.ok
    /\ Len(res.out) > 0
    /\ Len(res.out) < res.num
    /\ Ceiling(res.nodes, res.k) > 1
    /\ Ceiling(res.nodes, res.k) - 1 + res.num > Len(res.nodes)

Pairs(h) == {<<h.arr[i].elem.uid, h.arr[i].elem.oid>> : i \in 1..h.len}

\* ApplyDiff has returned.
Applied == dpc = "applied" /\ \A x \in Threads : th[x].pc = "idle"

\* C11: for any two hashrings h1 and h2, once h1.Diff(h2) has been applied
\* to a copy of h2, the copy holds exactly the (UID, OID) pairs of h1.
C11_DiffRoundTrip ==
    Applied => \A t \in RingTypes : Pairs(ring[t]) = Pairs(h1)

\* The diff that was applied had a new, a changed and a gone resource, and
\* the new one went in front of a node of the copy.
C11_Witness ==
    /\ Applied
    /\ diff.New # <<>>
    /\ diff.Changed # <<>>
    /\ diff.Gone # <<>>
    /\ \E t \in RingTypes :
          /\ ring[t].len >= 2
          /\ ring[t].arr[1].elem = diff.New[1]

\* The distributors whose filter has admitted the resource (uid, oid).
AdmittedBy(uid, oid) == {d \in StencilNames : TRUE \in fres[<<uid, oid, d>>]}

\* The filter of every distributor of the weight map has been evaluated
\* for the resource.
AllAsked(uid, oid) == \A d \in DOMAIN props : fres[<<uid, oid, d>>] # {}

\* C12: for a stencil built from a weight map with positive weights, a
\* resource is admitted by the filter of no more than one distributor
\* name, and by one once every distributor's filter has been evaluated.
C12_ExactlyOneAdmits ==
    \A u \in UIDs, o \in OIDs :
       /\ Cardinality(AdmittedBy(u, o)) <= 1
       /\ AllAsked(u, o) => Cardinality(AdmittedBy(u, o)) = 1

\* C13: for a fixed stencil, every evaluation of the filter of
\* distributor D for a resource gives the same answer, whatever other
\* evaluations came before it or run beside it.
C13_SameAnswerEveryTime ==
    \A u \in UIDs, o \in OIDs, d \in StencilNames :
       Cardinality(fres[<<u, o, d>>]) <= 1

\* C14: a resource that changed its OID (and kept its UID) is admitted by
\* the filter of the distributor that admitted it before the change.
C14_OidChangeKeepsDist ==
    \A u \in UIDs, d \in StencilNames :
       \A o1, o2 \in OIDs :
          (o1 # o2 /\ fres[<<u, o1, d>>] # {} /\ fres[<<u, o2, d>>] # {})
             => fres[<<u, o1, d>>] = fres[<<u, o2, d>>]

\* C15: a Get for distributor D that runs beside Add and Prune calls
\* returns no resource twice and every resource of D that the ring held
\* during the whole call.
C15_GetIsSnapshot ==
    [][\A x \in Threads :
          GetReturns(x) =>
            LET out == Resources(th[x].gres)
            IN  /\ Distinct(out)
                /\ \A uid \in th[x].gheld :
                      DistOf(uid) = th[x].gd =>
                         \E i \in DOMAIN out : out[i].uid = uid]_vars

\* C16: once the connection of a streaming subscriber has ended, its
\* channel is removed from the recipients in the end, whatever calls are
\* sending a diff to the subscriber at that moment.
C16_EventuallyUnregistered ==
    (conn = "done") ~> (hnd.pc = "gone" /\ Registered = {})

\* The bridge lines of the batches that testResources has in hand.
Batches == {tests[i].lines : i \in DOMAIN tests}

\* C17: every resource accepted into the buffer of the test pool is sent to
\* the tester as soon as the buffer holds 25 resources, or one flush
\* timeout after the first resource entered the empty buffer, whichever
\* happens first: no accepted resource leaves the buffer unsent, the buffer
\* never holds 25 resources, and its first resource is never older than
\* the flush timeout.
C17_SentAtCapacityOrTimeout ==
    /\ lost = {}
    /\ Cardinality(rMap) < MaxResources
    /\ rMap # {} => ptime - entered <= FlushTimeout

\* C17, as the code has it: the same holds until the pool is stopped; the
\* resources that the buffer holds when the dispatcher returns on shutdown
\* are never sent, and nothing else is ever left unsent.
C17_SentUnlessStopped ==
    /\ pstop \/ lost = {}
    /\ prun \/ rMap = {}
    /\ Cardinality(rMap) < MaxResources
    /\ rMap # {} => ptime - entered <= FlushTimeout

\* A running pool has sent one batch on the timer and one on capacity.
C17_Witness ==
    /\ ~pstop
    /\ \E i, j \in DOMAIN tests :
          /\ Cardinality(tests[i].lines) = MaxResources
          /\ Cardinality(tests[j].lines) < MaxResources
          /\ tests[i].pc = "requested"
          /\ tests[j].pc = "requested"

\* C18: a resource whose bridge line is buffered or under test is dropped
\* when it is submitted again, so no bridge line is in two batches that
\* are with the tester at the same time, nor in the buffer and in such a
\* batch: every buffered or tested line is marked in inProgress, which is
\* what drops it.
C18_NeverInTwoRequests ==
    /\ \A i, j \in DOMAIN tests :
          i # j => tests[i].lines \cap tests[j].lines = {}
    /\ \A i \in DOMAIN tests : tests[i].lines \cap rMap = {}
    /\ rMap \cup UNION Batches \subseteq inProgress

\* A line that is with the tester was submitted again and dropped, with two
\* requests outstanding.
C18_Witness ==
    /\ pres.line # 0
    /\ ~pres.accepted
    /\ Len(tests) = MaxTests
    /\ \A i \in DOMAIN tests : tests[i].pc = "requested"
    /\ \E i \in DOMAIN tests : pres.line \in tests[i].lines
    /\ pres.line \notin rMap

\* C19: a distributor hands a resource to a user only if the test state of
\* the resource is functional: every resource that RequestBridges returns
\* is functional.
C19_HandsOutOnlyFunctional ==
    res.op = "RequestBridges" =>
       \A i \in DOMAIN res.out : res.out[i].state = StateFunctional

\* C20: after the shutdown signal is given, the ingestion task returns in
\* the end, whatever it is doing at that moment.
C20_ReturnsAfterShutdown == quit ~> (kpc = "returned")

\* C21: while the requests to the backend keep failing, the waits before
\* the retries are 1 s, 2 s, 4 s and so on, doubling after each failure
\* and never more than one hour; after a request has succeeded, the wait
\* after the next failure is 1 s again.  nfails counts the failures since
\* the last success.
C21_BackoffDoublesToCap ==
    spc = "sleep" =>
       /\ slept = (IF 2 ^ (nfails - 1) > MaxTimeBeforeRetry
                   THEN MaxTimeBeforeRetry
                   ELSE 2 ^ (nfails - 1))
       /\ slept <= MaxTimeBeforeRetry

\* After a connection that had been set up was lost, the failures went on
\* until the wait reached one hour.
C21_Witness ==
    /\ spc = "sleep"
    /\ nconns > 0
    /\ nfails = MaxFails
    /\ slept = MaxTimeBeforeRetry

\* A step in which Housekeeping's tick calls UpdateTrust.
Ticks == lastTick' # lastTick

\* The whole days between two times.
WholeDays(from, to) == ((to - from) * HoursPerHalfDay) \div 24

\* C23: update_trust is idempotent within one elapsed period: once a call
\* has promoted a user, no further call promotes the user before another
\* full promotion period has passed since that promotion.
C23_IdempotentWithinPeriod ==
    [][Ticks =>
         \A u \in UserIds :
            (uexists[u] /\ utrust'[u] # utrust[u] /\ upromo[u] # -1) =>
               WholeDays(upromo[u], sclock) >= 2 ^ Abs(utrust[u] + 1)]_vars

MinTrust(users, T) ==
    CHOOSE n \in {T[u] : u \in users} : \A u \in users : n <= T[u]

\* C26: the trust level of a proxy never decreases: each periodic update
\* sets it to the minimum trust of the users assigned to the proxy when
\* that minimum is higher than the current level, and leaves it unchanged
\* otherwise.
C26_ProxyTrustFollowsMinimum ==
    [][Ticks =>
         /\ ptrust' >= ptrust
         /\ ptrust' = (IF pusers # {} /\ MinTrust(pusers, utrust') > ptrust
                       THEN MinTrust(pusers, utrust')
                       ELSE ptrust)]_vars

\* C26, as the code has it: the same, and the update of a proxy that has
\* no users raises its trust to UntouchableTrustLevel.
C26_ProxyTrustNeverDecreases ==
    [][/\ ptrust' >= ptrust
       /\ Ticks =>
            LET floor == IF pusers = {} THEN UntouchableTrustLevel
                         ELSE MinTrust(pusers, utrust')
            IN  ptrust' = (IF floor > ptrust THEN floor ELSE ptrust)]_vars

\* The tick that has just run left the proxy's trust above the trust of
\* one of its users, after an earlier tick had raised it to its users'
\* minimum.
C26_Witness ==
    /\ lastTick = sclock
    /\ ptrust = 1
    /\ \E u, v \in pusers : utrust[u] = 1 /\ utrust[v] < 1

\* C25: after set_blocked on a proxy that is assigned to n users (n at
\* least 1), each of those users has one more innocence probability
\* (n - 1)/n on record, and each of them whose suspicion is at least 0.333
\* is marked banned; with two assigned users a single set_blocked bans
\* both.
C25_BlockingRaisesSuspicion ==
    [][nblocks' # nblocks =>
         LET users == busers[blocked']
             n == Cardinality(users)
         IN  \A u \in users :
                /\ Len(innocencePs'[u]) = Len(innocencePs[u]) + 1
                /\ SubSeq(innocencePs'[u], 1, Len(innocencePs[u]))
                      = innocencePs[u]
                /\ LET p == innocencePs'[u][Len(innocencePs'[u])]
                   IN  p.num * n = (n - 1) * p.den
                /\ 1000 * (Score(innocencePs'[u]).den
                              - Score(innocencePs'[u]).num)
                      >= 333 * Score(innocencePs'[u]).den
                   => banned'[u]
                /\ n = 2 => banned'[u]]_vars

\* A proxy with four users was blocked, which banned nobody, and then a
\* proxy with two of these users, which banned the two.
C25_Witness ==
    /\ blocked # 0
    /\ Cardinality(busers[blocked]) = 2
    /\ \E u \in BlockUserIds :
          /\ u \notin busers[blocked]
          /\ innocencePs[u] = <<InnocenceP(4)>>
          /\ ~banned[u]
    /\ \A u \in busers[blocked] :
          /\ innocencePs[u] = <<InnocenceP(4), InnocenceP(2)>>
          /\ banned[u]

\* C22: an invite token can be redeemed successfully at most once: after
\* any redeem attempt on a token, successful or not, every later or
\* concurrent redeem attempt on that token fails, so at most one user is
\* ever created from one token.
C22_RedeemedAtMostOnce ==
    /\ \A k \in Tokens : created[k] <= 1
    /\ \A x \in RedeemThreads : (rth[x].done /\ rth[x].ok) => rth[x].first
    /\ \A x, y \in RedeemThreads :
          (x # y /\ rth[x].pc \in {"delete", "check"}) =>
             rth[y].pc \notin {"delete", "check"}

\* A token was redeemed by one goroutine and a user created from it, and
\* the attempt of another goroutine on the same token has failed.
C22_Witness ==
    /\ created[1] = 1
    /\ attempts[1] = 2
    /\ \E x \in RedeemThreads :
          rth[x].done /\ ~rth[x].ok /\ rth[x].token = 1 /\ rth[x].pc = "idle"
    /\ \E y \in RedeemThreads :
          rth[y].done /\ rth[y].ok /\ rth[y].token = 1

\* C27: when the traversal of the inviter's subtree yields fewer than 3
\* proxies, find_proxies takes up to (3 - already_found) resources from the
\* front of the unassigned queue of the requested type, moves them from
\* the unassigned queue to the assigned queue and associates them with the
\* user; when that queue holds fewer resources than needed it takes those
\* that are there and does not fail.
C27_TakesTheRemainingFromUnassigned ==
    [][(ngetp' # ngetp /\ uProxies[lastGet'.user] = <<>>)
         => LET u == lastGet'.user
                found == IF uInvitedBy[u] # 0
                         THEN findAssignedProxies(uInvitedBy[u])
                         ELSE <<>>
                n == NumRemainingOfFound(found)
            IN  Len(found) < NumProxiesPerUser
                  => /\ ~lastGet'.panicked
                     /\ UnassignedProxies' = Drop(UnassignedProxies, n)
                     /\ AssignedProxies' =
                           AssignedProxies \o Take(UnassignedProxies, n)
                     /\ uProxies'[u] = Take(UnassignedProxies, n)]_vars

\* C28: once get_proxies has returned a non-empty set of proxies to a
\* user, the user has these proxies assigned, and every later get_proxies
\* call by that user returns the same proxies.
C28_SameProxiesEveryTime ==
    \A u \in SalmonUserIds :
       firstRet[u] # <<>> => uProxies[u] = firstRet[u] /\ lastRet[u] = firstRet[u]

\* The last request is one the backend has to refuse: it carries no valid
\* bearer token, or its body is missing or malformed, or it holds a
\* resource of an unsupported type or an invalid resource.
ToBeRefused(post) ==
    \/ post.auth # "valid"
    \/ post.body \in {"empty", "notarray"}
    \/ \E i \in 1..Len(post.raws) : post.raws[i].kind # "ok"

\* C29: a request to the backend that carries no valid bearer token, or
\* whose body is missing or malformed, or that holds a resource of an
\* unsupported type or an invalid resource, is answered with a 4xx status
\* and adds nothing to the store; for a POST with several resources, none
\* of them is added.
C29_BadRequestsAddNothing ==
    [][(nposts' # nposts /\ ToBeRefused(lastPost'))
         => /\ lastPost'.status >= 400
            /\ lastPost'.status < 500
            /\ postAdds' = postAdds]_vars

\* Goroutine x is inside BackendResources.Add: it has made the presence
\* check and has not yet returned from the hashring's AddOrUpdate.
InsideAdd(x) == th[x].op = "Add" /\ th[x].pc # "idle"

\* Goroutine y takes a step of an Add or of a Prune of the store.
StoreStepOf(y) ==
    /\ th'[y] # th[y]
    /\ th[y].op \in StoreOps \/ th'[y].op \in StoreOps

\* C30: add, prune, register, unregister and the propagation fan-out each
\* run under the write lock of the store, so the presence check, the event
\* emission and the ring update of one add are never interleaved with the
\* steps of another add or of a prune on the same store.
C30_AddRunsUnderTheStoreLock ==
    [][\A x, y \in Threads :
          (x # y /\ InsideAdd(x)) => ~StoreStepOf(y)]_vars

\* The handler's channel is closed: the deferred close has run.
ChannelClosed == hnd.pc \in {"unreg", "gone"}

\* C33: no diff is ever sent on a subscriber channel after that channel has
\* been closed: a channel is removed from the list of recipients before it
\* is closed.
C33_UnregisteredBeforeClosed ==
    ChannelClosed =>
       /\ \A i \in 1..Len(er[hnd.d].chans) : er[hnd.d].chans[i] # hnd.c
       /\ \A x \in Threads :
             ~(snd[x].pc \in {"send", "blocked"} /\ snd[x].c = hnd.c)

\* The dispatcher takes a tick of the timer: the case <-ticker.C.
TimerExpiryTaken == tickc /\ ~tickc' /\ inProgress' = inProgress

\* C35: the flush timer of the test pool is one-shot: it is started only
\* when the first item enters an empty buffer, and after it has expired
\* once it does not expire again until a new first item enters an empty
\* buffer, so no flush is started for an empty buffer.
C35_NoFlushOfEmptyBuffer ==
    [][TimerExpiryTaken => rMap # {}]_vars

\* A call of testResources returns.
TestReturns == Len(tests') < Len(tests)

\* The bridge lines of the batches that are with testResources.
LinesUnderTest(T) == UNION {T[i].lines : i \in DOMAIN T}

\* C36: when a tester request fails or the tester reports an error, no test
\* record of any resource in the batch is changed, and every resource of
\* the batch is removed from the in-progress set, so that a later
\* submission of it is accepted and tested.
C36_FailedTestLeavesRecords ==
    [][(TestReturns /\ tdone' \in {"failed", "error"})
         => LET batch == LinesUnderTest(tests) \ LinesUnderTest(tests')
            IN  /\ rtest' = rtest
                /\ batch \cap inProgress' = {}
                /\ batch # {}]_vars

\* Line 1 is the only line there has been; the test of its batch has
\* failed, it was submitted again and accepted, and it is in a batch that
\* is with the tester, its test record as it was.
C36_Witness ==
    /\ tdone \in {"failed", "error"}
    /\ nlines = 1
    /\ pres = [line |-> 1, accepted |-> TRUE]
    /\ rtest[1] = StateUntested
    /\ \E i \in DOMAIN tests : 1 \in tests[i].lines /\ tests[i].pc = "requested"

\* The ring holds a resource with the UID and the OID of the last call's
\* resource whose state is not untested and whose last test is less than
\* one expiry period old.
TestedRecently(h, c, t) ==
    /\ h[c.uid].present
    /\ h[c.uid].oid = c.oid
    /\ h[c.uid].state # StateUntested
    /\ t - h[c.uid].lastTested < h[c.uid].exp

C38_AssignmentsAgree ==
    (\A t \in AssignThreads : apc[t].pc = "idle")
        => \A u \in AssignUsers, p \in AssignProxies :
               u \in SetAt(ProxyToUser, p) <=> p \in SetAt(UserToProxy, u)

\* The changed section of the diff carries a proxy with this UID that is in
\* the assigned queue and whose new copy is blocked in a location in which
\* the old copy is not.
NewlyBlocked(uid, d, q) ==
    \E i \in 1..Len(d.Changed), k \in 1..Len(q) :
        /\ d.Changed[i].Uid = uid
        /\ q[k].Uid = uid
        /\ d.Changed[i].BlockedIn \ q[k].BlockedIn # {}

\* C39: when Salmon processes a diff, SetBlocked is called for a proxy
\* exactly when the changed section of the diff carries a proxy that is in
\* the assigned queue and whose new copy is blocked in at least one location
\* in which the old copy is not blocked.
C39_SetBlockedWhenNewlyBlocked ==
    [][(sdiff' # sdiff \/ sblocked' # sblocked)
         => \A uid \in DiffProxies :
               uid \in sblocked' <=> NewlyBlocked(uid, sdiff', assignedQ)]_vars

\* C40: at all times every proxy UID known to Salmon is in at most one of
\* the unassigned queue and the assigned queue of its type, including after
\* the backend has sent its snapshot again as new resources following a
\* reconnect.
C40_UnassignedOrAssigned ==
    QueueUids(unassignedQ) \cap QueueUids(assignedQ) = {}

\* C34: after Shutdown is called on a hashring-based distributor, its
\* housekeeping task and its stream task both return in the end and
\* Shutdown itself returns, under every interleaving with diffs arriving
\* from the backend and with reconnection attempts.
C34_ShutdownReturns ==
    (sdpc # "idle")
        ~> (hkpc = "returned" /\ hspc = "returned" /\ sdpc = "returned")

\* The (UID, OID) pairs held under the UIDs of a ring.
PairsOf(h) == {<<u, h[u].oid>> : u \in {v \in DOMAIN h : h[v].present}}

\* C31: for a distributor that stays connected, whenever it has applied the
\* first frame and every diff sent to it so far and no store change is in
\* progress, its local ring holds exactly the (UID, OID) pairs that Get on
\* the store returns for that distributor and its requested types.
C31_LocalRingIsTheStoresView ==
    (dconn /\ ndconns = 1) => PairsOf(dring) = PairsOf(sring)

\* C32: after the connection to the backend was lost and set up again, once
\* the distributor has applied the new first frame its local ring again
\* holds exactly the resources that the store now assigns to it.
C32_ReconnectIsTransparent ==
    [][(ndconns' # ndconns /\ ndconns >= 1)
         => PairsOf(dring') = PairsOf(sring')]_vars
====
